---- MODULE Spec2Model ----
(***************************************************************************)
(* Slot-request lifecycle of the parking-management backend.               *)
(*                                                                         *)
(* The tables SlotRequest, ParkingSlot, Vehicle, User and ActionLog are    *)
(* the state.  Every Express handler is a process that takes one step per  *)
(* awaited call (a Prisma query, logAction, sendEmail); what it computes   *)
(* between two awaits runs without interruption, so the checks on a row    *)
(* belong to the step that read it, and the error middleware's answer to   *)
(* an error belongs to the step that threw it.  The steps are the same in  *)
(* every specification:                                                    *)
(*   - Spec runs the handlers of slotRequestController.js one call at a    *)
(*     time: a call is entered only when none is in flight;                *)
(*   - SpecConc lets the steps of two calls interleave, as they do on the  *)
(*     Node event loop with a shared database;                             *)
(*   - SpecFx is Spec over fewer inputs and with room for a longer log;    *)
(*   - SpecAdmin adds the handlers that write slots, vehicles and users *)
(*     (bulkCreateSlots, createSlot, updateSlot, deleteSlot, addVehicle,  *)
(*     updateVehicle, deleteVehicle, registerUser, deleteUser), one call  *)
(*     at a time;                                                          *)
(*   - SpecAdminConc interleaves deleteUser with a user's call, the       *)
(*     logged reads, registerUser, loginUser and updateUserProfile among   *)
(*     them.                                                               *)
(* A handler is entered only after the route's protect/authorize           *)
(* middleware let the caller through, so create/update/cancel are called   *)
(* by users of role USER and approve/reject by the administrator.          *)
(*                                                                         *)
(* The Prisma schema declares the mysql connector, whose client does not   *)
(* know the filter argument `mode` and rejects a query that carries it:    *)
(* in the service as declared approveRequest throws at its slot query and  *)
(* its two writes are never reached.  Init is that service, and SpecConc,  *)
(* SpecAdmin and SpecAdminConc start from it and leave the two writes out; *)
(* every behaviour that refutes a statement is a behaviour of the service  *)
(* as declared.  Spec and SpecFx start from InitAnyClient, which also      *)
(* admits a client that accepts `mode` and compares without regard to      *)
(* letter case: they hold every behaviour of the declared service and, in  *)
(* addition, the behaviours in which approveRequest goes on to its writes, *)
(* so what is an invariant of them is an invariant of the service.  On     *)
(* MySQL the columns' collation also makes `=` ignore letter case; the     *)
(* sizes, types and slot numbers used here hold no two values that differ  *)
(* in case only, apart from the spellings of "any".                        *)
(***************************************************************************)
EXTENDS Naturals, Sequences, FiniteSets, TLC

VARIABLES
    requests,   \* table SlotRequest: sequence of rows, a row's id is its index
    slots,      \* table ParkingSlot: slot id -> row
    vehicles,   \* table Vehicle: vehicle id -> row
    users,      \* table User: the ids of the rows of role USER
    accounts,   \* table User: id -> the row's name, email and password
    actionLog,  \* table ActionLog: sequence of rows, oldest first
    clock,      \* the value the next `new Date()` returns
    connector,  \* the database connector of the Prisma client in use
    procs,      \* Procs -> activation record of the call in flight or answered
    before,     \* the tables as the call now in flight found them (history)
    calls       \* the number of calls entered so far (counted in SpecConc)

vars == <<requests, slots, vehicles, users, accounts, actionLog, clock, connector, procs, before,
         calls>>

-----------------------------------------------------------------------------
(* Bounds and the finite universe of identifiers and inputs.               *)

\* The number of SlotRequest rows ever created.
MaxRequests == 2

Null == "null"

\* Callers that pass authorize('USER'), and the caller that passes
\* authorize('ADMIN').
Users == {"u1", "u2"}
Admin == "admin"

VehicleIds == {"v1", "v2", "v3"}
SlotIds == {"s1", "s2", "s3"}
RequestIds == 1 .. MaxRequests

\* Request-body values that name no row, are absent (falsy), or are truthy
\* but not of type string (such as the number 42).  Absent is the empty
\* string, which the handlers testing a field with `!x` treat as a field
\* that was not sent.
GhostVehicle == "v9"
GhostSlot == "s9"
Absent == ""
NonString == "#42"

\* A body field that is not sent at all (undefined), for the one handler
\* that treats it otherwise than the empty string: loginUser hands its
\* email to the query unchecked.
NotSent == "#undefined"

VehicleArgs == VehicleIds \cup {GhostVehicle, Absent, NonString}
SlotArgs == SlotIds \cup {GhostSlot, Absent, NonString}
ReasonArgs == {Absent, "lot closed"}

ActiveStatuses == {"PENDING", "APPROVED"}

\* provider = "mysql" of the schema's datasource.
Provider == "mysql"

\* hashPassword: the stored form of a password.
HashPassword(password) == "hash(" \o password \o ")"

\* comparePassword: whether the password sent is the one stored hashed.
ComparePassword(password, hashed) == hashed = HashPassword(password)

\* The User rows registered before the first call; the row of a deleted
\* user.
InitAccounts ==
    [u \in Users \cup {Admin} |->
        CASE u = "u1" -> [name |-> "n1", email |-> "e1", password |-> HashPassword("pw1")]
          [] u = "u2" -> [name |-> "n1", email |-> "e2", password |-> HashPassword("pw1")]
          [] OTHER    -> [name |-> "n1", email |-> "ea", password |-> HashPassword("pw1")]]

DeletedAccount == [name |-> Null, email |-> Null, password |-> Null]

\* The vehicles registered before the first request: v1 and v2 belong to u1,
\* v3 to u2.
InitVehicles ==
    [v \in VehicleIds |->
        CASE v = "v1" -> [userId |-> "u1", plateNumber |-> "P1", size |-> "medium",
                          vehicleType |-> "car"]
          [] v = "v2" -> [userId |-> "u1", plateNumber |-> "P2", size |-> "medium",
                          vehicleType |-> "truck"]
          [] OTHER    -> [userId |-> "u2", plateNumber |-> "P3", size |-> "small",
                          vehicleType |-> "car"]]

\* The parking lots the administrator may have created before the first
\* request: three slots, all AVAILABLE (createSlot, schema default), with
\* unique slot numbers.  For each vehicle a lot has a slot matched exactly or
\* through "any" in some letter case, one of the wrong size and (for v2) one
\* of the wrong type only; s2 was created before s1 or at the same instant.
InitSlotTables ==
    { [s \in SlotIds |->
        CASE s = "s1" -> [slotNumber |-> "A1", size |-> "medium", vehicleType |-> "car",
                          location |-> "L1", status |-> "AVAILABLE", createdAt |-> 2]
          [] s = "s2" -> [slotNumber |-> "A2", size |-> "medium", vehicleType |-> "ANY",
                          location |-> "L1", status |-> "AVAILABLE", createdAt |-> c2]
          [] OTHER    -> [slotNumber |-> "A3", size |-> "small", vehicleType |-> "aNy",
                          location |-> "L1", status |-> "AVAILABLE", createdAt |-> 1]]
      : c2 \in {1, 2} }

-----------------------------------------------------------------------------
(* Responses and string conversions.                                       *)

\* res.status(code) and the kind of error thrown; st is the request status
\* the error message quotes ("" when it quotes none).
Resp(code, res, st) == [code |-> code, res |-> res, st |-> st]

\* The answer of the error middleware to an error thrown before any
\* res.status(...): a failed Prisma call.
ServerError == Resp(500, "ServerError", "")

\* String.prototype.toLowerCase on the values of the RequestStatus enum.
ToLowerCase(s) ==
    CASE s = "PENDING"   -> "pending"
      [] s = "APPROVED"  -> "approved"
      [] s = "REJECTED"  -> "rejected"
      [] s = "CANCELLED" -> "cancelled"
      [] OTHER           -> s

\* The strings that differ from "any" in letter case at most.
AnySpellings == {"any", "anY", "aNy", "aNY", "Any", "AnY", "ANy", "ANY"}

\* Case folding as the insensitive filter does it, on the vehicle types in
\* use: the spellings of "any", and types written in lower case.
FoldCase(s) == IF s \in AnySpellings THEN "any" ELSE s

\* `!x || typeof x !== 'string'`
NotAString(x) == x = Absent \/ x = NonString

-----------------------------------------------------------------------------
(* Queries and row updates.                                                *)

\* Ids are never reused (cuid), so a deleted row leaves a gap: the id keeps
\* its place in the table and holds no row.
DeletedRequest ==
    [userId |-> Null, vehicleId |-> Null, requestStatus |-> "DELETED",
     slotId |-> Null, assignedSlotNumber |-> Null, approvedAt |-> 0]

DeletedSlot ==
    [slotNumber |-> Null, size |-> Null, vehicleType |-> Null, location |-> Null,
     status |-> "DELETED", createdAt |-> 0]

DeletedVehicle ==
    [userId |-> Null, plateNumber |-> Null, size |-> Null, vehicleType |-> Null]

\* Whether findUnique({ where: { id } }) returns a row.
HasRequest(reqs, id) == id \in DOMAIN reqs /\ reqs[id] # DeletedRequest
HasVehicle(vehs, id) == id \in DOMAIN vehs /\ vehs[id] # DeletedVehicle
HasSlot(sl, id) == id \in DOMAIN sl /\ sl[id] # DeletedSlot

\* Whether the User row a foreign key points to exists.
HasUser(us, id) == id = Admin \/ id \in us

ActiveRequestsFor_PendingOnly(reqs, vehicleId, exceptId) ==
    { i \in DOMAIN reqs : /\ reqs[i].vehicleId = vehicleId
                          /\ reqs[i].requestStatus = "PENDING"
                          /\ i # exceptId }

\* prisma.slotRequest.findFirst({ where: { vehicleId, requestStatus: { in:
\* ['PENDING', 'APPROVED'] }, NOT: { id } } }): the ids of the matching rows
\* (exceptId = 0 excludes none).  findFirst returns any one of them.
ActiveRequestsFor(reqs, vehicleId, exceptId) ==
    { i \in DOMAIN reqs : /\ reqs[i].vehicleId = vehicleId
                          /\ reqs[i].requestStatus \in ActiveStatuses
                          /\ i # exceptId }

NewRequest_Approved(userId, vehicleId) ==
    [userId |-> userId, vehicleId |-> vehicleId, requestStatus |-> "APPROVED",
     slotId |-> Null, assignedSlotNumber |-> Null, approvedAt |-> 0]

\* The row prisma.slotRequest.create inserts.
NewRequest(userId, vehicleId) ==
    [userId |-> userId, vehicleId |-> vehicleId, requestStatus |-> "PENDING",
     slotId |-> Null, assignedSlotNumber |-> Null, approvedAt |-> 0]

\* The guard every mutating handler applies to the row it read.
IsPending(req) == req.requestStatus = "PENDING"

\* Whether the client sends a query with { mode: 'insensitive' } to the
\* database; the mysql client throws a validation error instead.
ModeAccepted(conn) == conn # "mysql"

Compatible_NoSize(slot, vehicle) ==
    /\ slot.status = "AVAILABLE"
    /\ \/ slot.vehicleType = vehicle.vehicleType
       \/ FoldCase(slot.vehicleType) = "any"

\* The where clause of both slot queries of approveRequest, as a connector
\* that accepts it evaluates it.
Compatible(slot, vehicle) ==
    /\ slot.status = "AVAILABLE"
    /\ slot.size = vehicle.size
    /\ \/ slot.vehicleType = vehicle.vehicleType
       \/ FoldCase(slot.vehicleType) = "any"

ManualCandidates_AnyAvailable(sl, slotId, vehicle) ==
    { s \in DOMAIN sl : s = slotId /\ sl[s].status = "AVAILABLE" }

\* Manual branch: findFirst({ where: { id, ...compatibility } }).
ManualCandidates(sl, slotId, vehicle) ==
    { s \in DOMAIN sl : s = slotId /\ Compatible(sl[s], vehicle) }

AutoCandidates_Unordered(sl, vehicle) ==
    { s \in DOMAIN sl : Compatible(sl[s], vehicle) }

\* Automatic branch: findFirst({ where: compatibility, orderBy: { createdAt:
\* 'asc' } }).  Rows with the same createdAt come in an order the database
\* does not define, so each of the oldest rows may be the one returned.
AutoCandidates(sl, vehicle) ==
    LET c == { s \in DOMAIN sl : Compatible(sl[s], vehicle) }
    IN  { s \in c : \A t \in c : sl[s].createdAt <= sl[t].createdAt }

SlotCandidates_Fallback(sl, manualId, vehicle) ==
    IF manualId # Absent /\ ManualCandidates(sl, manualId, vehicle) # {}
    THEN ManualCandidates(sl, manualId, vehicle)
    ELSE AutoCandidates(sl, vehicle)

\* The slots approveRequest may end up with for the body's slotId.
SlotCandidates(sl, manualId, vehicle) ==
    IF manualId # Absent
    THEN ManualCandidates(sl, manualId, vehicle)
    ELSE AutoCandidates(sl, vehicle)

ApprovedRow_NoSlotNumber(req, slotId, slotNumber, now) ==
    [req EXCEPT !.requestStatus = "APPROVED", !.slotId = slotId, !.approvedAt = now]

\* prisma.slotRequest.update of approveRequest.
ApprovedRow(req, slotId, slotNumber, now) ==
    [req EXCEPT !.requestStatus = "APPROVED", !.slotId = slotId,
                !.assignedSlotNumber = slotNumber, !.approvedAt = now]

OccupiedRow_Skipped(slot) == slot

\* prisma.parkingSlot.update of approveRequest.
OccupiedRow(slot) == [slot EXCEPT !.status = "UNAVAILABLE"]

CancelledRow_Rejected(req) == [req EXCEPT !.requestStatus = "REJECTED"]

RejectedRow_Cancelled(req) == [req EXCEPT !.requestStatus = "CANCELLED"]

\* prisma.slotRequest.update of cancelSlotRequest and of rejectRequest.
CancelledRow(req) == [req EXCEPT !.requestStatus = "CANCELLED"]
RejectedRow(req) == [req EXCEPT !.requestStatus = "REJECTED"]

SwappedRow_Unchanged(req, vehicleId) == req

\* prisma.slotRequest.update of updateSlotRequest.
SwappedRow(req, vehicleId) == [req EXCEPT !.vehicleId = vehicleId]

\* The row prisma.actionLog.create inserts (details left out).
LogRow(action, userId) == [action |-> action, userId |-> userId]

-----------------------------------------------------------------------------
(* Activations.                                                            *)

Procs == {"p1", "p2"}

\* The activation record of a handler: its position (pc), the inputs, the
\* query results it still uses (the vehicle id of the request row read, the
\* joined vehicle row, the slot found, the slot row read, the body sent and
\* the items of a bulk creation still to come), which it keeps using while
\* the tables move on, what it has handed to logAction and
\* sendEmail, and the response once it is decided.  A value the handler does
\* not read again is not kept.  When the response is sent the record stays,
\* with pc "done", until the activation serves the next call; for an approve
\* prev is the outcome of the call answered just before when that was an
\* approve of the same request ("none" otherwise).
NoVehicle == [userId |-> Null, plateNumber |-> Null, size |-> Null, vehicleType |-> Null]

\* A request body with none of the fields the handlers of slots and
\* vehicles read.
NoBody ==
    [slotNumber |-> Absent, plateNumber |-> Absent, size |-> Absent,
     vehicleType |-> Absent, location |-> Absent, status |-> Absent]

Idle == [pc |-> "idle", op |-> "none", caller |-> Null, rid |-> 0, arg |-> Absent,
         body |-> NoBody, items |-> << >>, created |-> 0, errors |-> 0,
         name |-> Absent, email |-> Absent, password |-> Absent,
         user |-> Null, userPassword |-> Null,
         reqVehicleId |-> Null, veh |-> NoVehicle, slot |-> Null,
         slotNumber |-> Null, slotRow |-> DeletedSlot, approvedAt |-> 0,
         code |-> 0, res |-> "none", st |-> "", prev |-> "none",
         audit |-> Null, audits |-> 0, mails |-> 0, auditOk |-> TRUE, mailOk |-> TRUE]

\* The tables a call's outcome is stated against.
Tables == [requests |-> requests, slots |-> slots, vehicles |-> vehicles]

\* The tables before the first call, and no call in flight.
InitTables ==
    /\ requests = <<>>
    /\ slots \in InitSlotTables
    /\ vehicles = InitVehicles
    /\ users = Users
    /\ accounts = InitAccounts
    /\ actionLog = <<>>
    /\ clock = 1
    /\ procs = [p \in Procs |-> Idle]
    /\ before = Tables
    /\ calls = 0

\* The service as declared: the client generated for the schema's provider.
Init == InitTables /\ connector = Provider

\* The declared service, or the same handlers on a client that accepts
\* `mode: 'insensitive'`.
InitAnyClient == InitTables /\ connector \in {Provider, "postgresql"}

\* The database, the clock and the connector: what a step that writes
\* nothing leaves alone.
tableVars == <<requests, slots, vehicles, users, accounts, actionLog, clock, connector>>

\* The activation is free to serve a call.
Free(p) == procs[p].pc \in {"idle", "done"}

\* The activation starts on call op.
Enter(p, op, caller, rid, arg) ==
    [Idle EXCEPT !.op = op, !.caller = caller, !.rid = rid, !.arg = arg,
                 !.prev = IF /\ op = "approve" /\ procs[p].pc = "done"
                             /\ procs[p].op = op /\ procs[p].rid = rid
                          THEN procs[p].res ELSE "none"]

\* The response is sent: by the error middleware for an error thrown
\* (Throw), by res.json otherwise (Reply).
Answered(rec, resp) ==
    [Idle EXCEPT !.pc = "done", !.op = rec.op, !.caller = rec.caller, !.rid = rec.rid,
                 !.arg = rec.arg, !.code = resp.code, !.res = resp.res, !.st = resp.st,
                 !.prev = rec.prev, !.audits = rec.audits, !.mails = rec.mails,
                 !.auditOk = rec.auditOk, !.mailOk = rec.mailOk]

Throw(rec, resp) == Answered(rec, resp)

Reply(rec) == Answered(rec, Resp(rec.code, rec.res, rec.st))

Goto(rec, pc) == [rec EXCEPT !.pc = pc]

\* The last write is done: the handler goes on to `await logAction(audit,
\* ...)` and will answer resp.
Succeed(rec, rid, resp, audit) ==
    [Idle EXCEPT !.pc = "log", !.op = rec.op, !.caller = rec.caller, !.rid = rid,
                 !.arg = rec.arg, !.code = resp.code, !.res = resp.res, !.st = resp.st,
                 !.prev = rec.prev, !.audit = audit]

-----------------------------------------------------------------------------
(* The handlers of slotRequestController.js, one step per awaited call.    *)
(* A write that the database refuses (the row is gone, a foreign key or a  *)
(* unique constraint fails) throws before any res.status(...).             *)

\* Creations that passed the vehicle checks and have not inserted yet.
CreatesInFlight ==
    Cardinality({ q \in Procs : procs[q].pc \in {"create_find", "create_insert"} })

\* createSlotRequest: validation, prisma.vehicle.findUnique, 404/403.
CreateReadVehicle(p, u, v) ==
    /\ Free(p)
    /\ UNCHANGED tableVars
    /\ LET rec == Enter(p, "create", u, 0, v)
       IN  IF NotAString(v)
           THEN procs' = [procs EXCEPT ![p] = Throw(rec, Resp(400, "ValidationError", ""))]
           ELSE IF ~HasVehicle(vehicles, v)
           THEN procs' = [procs EXCEPT ![p] = Throw(rec, Resp(404, "NotFound", ""))]
           ELSE IF vehicles[v].userId # u
           THEN procs' = [procs EXCEPT ![p] = Throw(rec, Resp(403, "Forbidden", ""))]
           ELSE /\ Len(requests) + CreatesInFlight < MaxRequests
                /\ procs' = [procs EXCEPT ![p] = Goto(rec, "create_find")]

\* createSlotRequest: prisma.slotRequest.findFirst (active request of the
\* vehicle), 400 if there is one.
CreateFindActive(p) ==
    /\ procs[p].pc = "create_find"
    /\ UNCHANGED tableVars
    /\ LET found == ActiveRequestsFor(requests, procs[p].arg, 0)
       IN  IF found # {}
           THEN \E e \in found :
                    procs' = [procs EXCEPT ![p] =
                        Throw(@, Resp(400, "Conflict", requests[e].requestStatus))]
           ELSE procs' = [procs EXCEPT ![p] = Goto(@, "create_insert")]

\* createSlotRequest: prisma.slotRequest.create; the row's userId and
\* vehicleId are foreign keys.
CreateInsert(p) ==
    /\ procs[p].pc = "create_insert"
    /\ UNCHANGED <<slots, vehicles, users, accounts, actionLog, clock, connector>>
    /\ IF ~HasUser(users, procs[p].caller) \/ ~HasVehicle(vehicles, procs[p].arg)
       THEN /\ procs' = [procs EXCEPT ![p] = Throw(@, ServerError)]
            /\ UNCHANGED requests
       ELSE /\ requests' = Append(requests, NewRequest(procs[p].caller, procs[p].arg))
            /\ procs' = [procs EXCEPT ![p] =
                            Succeed(@, Len(requests) + 1, Resp(201, "OK", ""),
                                    "SLOT_REQUEST_CREATED")]

\* updateSlotRequest: validation, prisma.slotRequest.findUnique, 404/403/400.
UpdateReadRequest(p, u, r, v) ==
    /\ Free(p)
    /\ UNCHANGED tableVars
    /\ LET rec == Enter(p, "update", u, r, v)
       IN  IF NotAString(v)
           THEN procs' = [procs EXCEPT ![p] = Throw(rec, Resp(400, "ValidationError", ""))]
           ELSE IF ~HasRequest(requests, r)
           THEN procs' = [procs EXCEPT ![p] = Throw(rec, Resp(404, "NotFound", ""))]
           ELSE IF requests[r].userId # u
           THEN procs' = [procs EXCEPT ![p] = Throw(rec, Resp(403, "Forbidden", ""))]
           ELSE IF ~IsPending(requests[r])
           THEN procs' = [procs EXCEPT ![p] =
                    Throw(rec, Resp(400, "InvalidState", requests[r].requestStatus))]
           ELSE procs' = [procs EXCEPT ![p] =
                    [rec EXCEPT !.pc = "update_vehicle",
                                !.reqVehicleId = requests[r].vehicleId]]

\* updateSlotRequest: prisma.vehicle.findUnique, 400 if missing or not the
\* caller's; the uniqueness query is skipped when the vehicle is the one the
\* request row read earlier already names.
UpdateReadVehicle(p) ==
    /\ procs[p].pc = "update_vehicle"
    /\ UNCHANGED tableVars
    /\ LET v == procs[p].arg
       IN  IF ~HasVehicle(vehicles, v) \/ vehicles[v].userId # procs[p].caller
           THEN procs' = [procs EXCEPT ![p] = Throw(@, Resp(400, "InvalidVehicle", ""))]
           ELSE IF v # procs[p].reqVehicleId
           THEN procs' = [procs EXCEPT ![p] =
                    [@ EXCEPT !.pc = "update_find", !.reqVehicleId = Null]]
           ELSE procs' = [procs EXCEPT ![p] =
                    [@ EXCEPT !.pc = "update_write", !.reqVehicleId = Null]]

\* updateSlotRequest: prisma.slotRequest.findFirst (active request of the
\* new vehicle, other than this one), 400 if there is one.
UpdateFindActive(p) ==
    /\ procs[p].pc = "update_find"
    /\ UNCHANGED tableVars
    /\ IF ActiveRequestsFor(requests, procs[p].arg, procs[p].rid) # {}
       THEN procs' = [procs EXCEPT ![p] = Throw(@, Resp(400, "Conflict", ""))]
       ELSE procs' = [procs EXCEPT ![p] = Goto(@, "update_write")]

\* updateSlotRequest: prisma.slotRequest.update({ data: { vehicleId } }).
UpdateWrite(p) ==
    /\ procs[p].pc = "update_write"
    /\ UNCHANGED <<slots, vehicles, users, accounts, actionLog, clock, connector>>
    /\ IF ~HasRequest(requests, procs[p].rid) \/ ~HasVehicle(vehicles, procs[p].arg)
       THEN /\ procs' = [procs EXCEPT ![p] = Throw(@, ServerError)]
            /\ UNCHANGED requests
       ELSE /\ requests' = [requests EXCEPT ![procs[p].rid] = SwappedRow(@, procs[p].arg)]
            /\ procs' = [procs EXCEPT ![p] =
                            Succeed(@, @.rid, Resp(200, "OK", ""),
                                    "SLOT_REQUEST_UPDATED_BY_USER")]

\* cancelSlotRequest: prisma.slotRequest.findUnique, 404/403/400.
CancelReadRequest(p, u, r) ==
    /\ Free(p)
    /\ UNCHANGED tableVars
    /\ LET rec == Enter(p, "cancel", u, r, Absent)
       IN  IF ~HasRequest(requests, r)
           THEN procs' = [procs EXCEPT ![p] = Throw(rec, Resp(404, "NotFound", ""))]
           ELSE IF requests[r].userId # u
           THEN procs' = [procs EXCEPT ![p] = Throw(rec, Resp(403, "Forbidden", ""))]
           ELSE IF ~IsPending(requests[r])
           THEN procs' = [procs EXCEPT ![p] =
                    Throw(rec, Resp(400, "InvalidState", requests[r].requestStatus))]
           ELSE procs' = [procs EXCEPT ![p] = Goto(rec, "cancel_write")]

\* cancelSlotRequest: prisma.slotRequest.update({ data: { requestStatus:
\* 'CANCELLED' } }).
CancelWrite(p) ==
    /\ procs[p].pc = "cancel_write"
    /\ UNCHANGED <<slots, vehicles, users, accounts, actionLog, clock, connector>>
    /\ IF ~HasRequest(requests, procs[p].rid)
       THEN /\ procs' = [procs EXCEPT ![p] = Throw(@, ServerError)]
            /\ UNCHANGED requests
       ELSE /\ requests' = [requests EXCEPT ![procs[p].rid] = CancelledRow(@)]
            /\ procs' = [procs EXCEPT ![p] =
                            Succeed(@, @.rid, Resp(200, "OK", ""),
                                    "SLOT_REQUEST_CANCELLED_BY_USER")]

\* approveRequest: prisma.slotRequest.findUnique({ include: { vehicle, user }
\* }), 404/400, and the type check of the body's slotId.
ApproveReadRequest(p, a, r, m) ==
    /\ Free(p)
    /\ UNCHANGED tableVars
    /\ LET rec == Enter(p, "approve", a, r, m)
       IN  IF ~HasRequest(requests, r)
           THEN procs' = [procs EXCEPT ![p] = Throw(rec, Resp(404, "NotFound", ""))]
           ELSE IF ~IsPending(requests[r])
           THEN procs' = [procs EXCEPT ![p] =
                    Throw(rec, Resp(400, "InvalidState",
                                    ToLowerCase(requests[r].requestStatus)))]
           ELSE IF m = NonString
           THEN procs' = [procs EXCEPT ![p] = Throw(rec, Resp(400, "ValidationError", ""))]
           ELSE procs' = [procs EXCEPT ![p] =
                    [rec EXCEPT !.pc = "approve_find",
                                !.veh = vehicles[requests[r].vehicleId]]]

\* approveRequest: prisma.parkingSlot.findFirst (manual or automatic), 400
\* if it returns no row.  Both queries carry { equals: 'any', mode:
\* 'insensitive' }: a client that does not accept it throws.  With a slot
\* found the handler builds the data of the request update, `approvedAt:
\* new Date()` included, before it awaits the update: the clock is read in
\* this step.
ApproveFindSlot(p) ==
    /\ procs[p].pc = "approve_find"
    /\ UNCHANGED <<requests, slots, vehicles, users, accounts, actionLog, connector>>
    /\ IF ~ModeAccepted(connector)
       THEN /\ procs' = [procs EXCEPT ![p] = Throw(@, ServerError)]
            /\ UNCHANGED clock
       ELSE LET found == SlotCandidates(slots, procs[p].arg, procs[p].veh)
            IN  IF found = {}
                THEN /\ procs' = [procs EXCEPT ![p] =
                                     Throw(@, Resp(400, "NoCompatibleSlot", ""))]
                     /\ UNCHANGED clock
                ELSE /\ \E s \in found :
                          procs' = [procs EXCEPT ![p] =
                              [@ EXCEPT !.pc = "approve_request", !.veh = NoVehicle,
                                        !.slot = s, !.slotNumber = slots[s].slotNumber,
                                        !.approvedAt = clock]]
                     /\ clock' = clock + 1

\* approveRequest: prisma.slotRequest.update (APPROVED, slot binding, the
\* approvedAt taken when the data was built); the row's slotId is a foreign
\* key.
ApproveWriteRequest(p) ==
    /\ procs[p].pc = "approve_request"
    /\ UNCHANGED <<slots, vehicles, users, accounts, actionLog, clock, connector>>
    /\ IF ~HasRequest(requests, procs[p].rid) \/ ~HasSlot(slots, procs[p].slot)
       THEN /\ procs' = [procs EXCEPT ![p] = Throw(@, ServerError)]
            /\ UNCHANGED requests
       ELSE /\ requests' = [requests EXCEPT ![procs[p].rid] =
                               ApprovedRow(@, procs[p].slot, procs[p].slotNumber,
                                           procs[p].approvedAt)]
            /\ procs' = [procs EXCEPT ![p] =
                            [@ EXCEPT !.pc = "approve_slot", !.slotNumber = Null,
                                      !.approvedAt = 0]]

\* approveRequest: prisma.parkingSlot.update({ data: { status: 'UNAVAILABLE'
\* } }).
ApproveWriteSlot(p) ==
    /\ procs[p].pc = "approve_slot"
    /\ UNCHANGED <<requests, vehicles, users, accounts, actionLog, clock, connector>>
    /\ IF ~HasSlot(slots, procs[p].slot)
       THEN /\ procs' = [procs EXCEPT ![p] = Throw(@, ServerError)]
            /\ UNCHANGED slots
       ELSE /\ slots' = [slots EXCEPT ![procs[p].slot] = OccupiedRow(@)]
            /\ procs' = [procs EXCEPT ![p] =
                            Succeed(@, @.rid, Resp(200, "OK", ""), "SLOT_REQUEST_APPROVED")]

\* rejectRequest: prisma.slotRequest.findUnique, 404/400.
RejectReadRequest(p, a, r, reason) ==
    /\ Free(p)
    /\ UNCHANGED tableVars
    /\ LET rec == Enter(p, "reject", a, r, reason)
       IN  IF ~HasRequest(requests, r)
           THEN procs' = [procs EXCEPT ![p] = Throw(rec, Resp(404, "NotFound", ""))]
           ELSE IF ~IsPending(requests[r])
           THEN procs' = [procs EXCEPT ![p] =
                    Throw(rec, Resp(400, "InvalidState",
                                    ToLowerCase(requests[r].requestStatus)))]
           ELSE procs' = [procs EXCEPT ![p] = Goto(rec, "reject_write")]

\* rejectRequest: prisma.slotRequest.update({ data: { requestStatus:
\* 'REJECTED' } }).
RejectWrite(p) ==
    /\ procs[p].pc = "reject_write"
    /\ UNCHANGED <<slots, vehicles, users, accounts, actionLog, clock, connector>>
    /\ IF ~HasRequest(requests, procs[p].rid)
       THEN /\ procs' = [procs EXCEPT ![p] = Throw(@, ServerError)]
            /\ UNCHANGED requests
       ELSE /\ requests' = [requests EXCEPT ![procs[p].rid] = RejectedRow(@)]
            /\ procs' = [procs EXCEPT ![p] =
                            Succeed(@, @.rid, Resp(200, "OK", ""), "SLOT_REQUEST_REJECTED")]

-----------------------------------------------------------------------------
(* After its last write a handler awaits logAction, which awaits           *)
(* prisma.actionLog.create and catches its failure; approveRequest and     *)
(* rejectRequest then await sendEmail inside try/catch; then res.json      *)
(* sends the response.  Whether the audit write and the mail succeed, fail *)
(* or ever complete is up to the database and the mailer.                  *)

LogActionThrows_Uncaught(ok) == ~ok

\* Whether logAction rethrows the failure of its write: the catch block
\* only prints it.
LogActionThrows(ok) == FALSE

SendEmailThrows_Uncaught(ok) == ~ok

\* Whether the handler rethrows the failure of sendEmail: the catch block
\* only prints it.
SendEmailThrows(ok) == FALSE

AfterLogAction_NoMail(op) == "reply"

\* Where the handler goes on after `await logAction(...)`.
AfterLogAction(op) == IF op \in {"approve", "reject"} THEN "mail" ELSE "reply"

AfterSendEmail_Retry(ok) == IF ok THEN "reply" ELSE "mail"

\* Where the handler goes on after the try/catch around sendEmail.
AfterSendEmail(ok) == "reply"

\* Whether prisma.actionLog.create stores the row: the database answers
\* (ok) and the row's userId, a foreign key, is null or names a user.
LogStored(p, ok) == ok /\ (procs[p].caller = Null \/ HasUser(users, procs[p].caller))

\* logAction: the awaited prisma.actionLog.create completes, with the row
\* inserted or with an error.
LogAction(p, ok) ==
    /\ procs[p].pc = "log"
    /\ UNCHANGED <<requests, slots, vehicles, users, accounts, clock, connector>>
    /\ actionLog' = IF LogStored(p, ok)
                    THEN Append(actionLog, LogRow(procs[p].audit, procs[p].caller))
                    ELSE actionLog
    /\ LET rec == [procs[p] EXCEPT !.audits = @ + 1, !.auditOk = LogStored(p, ok)]
       IN  IF LogActionThrows(LogStored(p, ok))
           THEN procs' = [procs EXCEPT ![p] = Throw(rec, ServerError)]
           ELSE IF AfterLogAction(rec.op) = "mail"
           THEN procs' = [procs EXCEPT ![p] = Goto(rec, "mail")]
           ELSE procs' = [procs EXCEPT ![p] = Reply(rec)]

\* approveRequest, rejectRequest: the awaited sendEmail completes, with the
\* mail sent or with an error.
SendEmail(p, ok) ==
    /\ procs[p].pc = "mail"
    /\ UNCHANGED tableVars
    /\ LET rec == [procs[p] EXCEPT !.mails = @ + 1, !.mailOk = ok]
       IN  IF SendEmailThrows(ok)
           THEN procs' = [procs EXCEPT ![p] = Throw(rec, ServerError)]
           ELSE IF AfterSendEmail(ok) = "mail"
           THEN procs' = [procs EXCEPT ![p] = rec]
           ELSE procs' = [procs EXCEPT ![p] = Reply(rec)]

-----------------------------------------------------------------------------
(* The administrator's operations on slots and users, and the owner's      *)
(* operations on vehicles: bulkCreateSlots, createSlot, updateSlot and     *)
(* deleteSlot of parkingSlotController.js, deleteUser of userController.js *)
(* and addVehicle, updateVehicle and deleteVehicle of vehicleController.js,*)
(* one step per awaited call.                                              *)

GhostUser == "u9"
UserArgs == Users \cup {Admin, GhostUser}

\* The ids prisma.parkingSlot.create may give to a new row, the slot numbers
\* createSlot is called with ("A3" is the number s3 starts with), and the
\* slots the administrator edits and deletes.
FreshSlotIds == {"s4"}
CreateNumberArgs == {Absent, "A3"}
AdminSlotArgs == {"s3"} \cup FreshSlotIds

\* The bodies updateSlot is called with: nothing, a new number, each status
\* (BROKEN is none), new size, type and location, and values that are not
\* strings, the second of them beside a status that is none.
UpdateSlotBodies ==
    { NoBody,
      [NoBody EXCEPT !.slotNumber = "B7"],
      [NoBody EXCEPT !.status = "AVAILABLE"],
      [NoBody EXCEPT !.status = "UNAVAILABLE"],
      [NoBody EXCEPT !.status = "MAINTENANCE"],
      [NoBody EXCEPT !.status = "BROKEN"],
      [NoBody EXCEPT !.size = "medium", !.vehicleType = "truck", !.location = "L2"],
      [NoBody EXCEPT !.slotNumber = NonString],
      [NoBody EXCEPT !.location = NonString, !.status = "BROKEN"] }

\* The items bulkCreateSlots is called with, and its bodies: no array, an
\* empty one, one good item, an item without location before a good one,
\* the number of s1 before a size that is no string, and the same number
\* twice.
BulkItem == [slotNumber |-> "B8", size |-> "small", vehicleType |-> "car", location |-> "L1"]

BulkBodies ==
    { [array |-> FALSE, items |-> << >>],
      [array |-> TRUE, items |-> << >>],
      [array |-> TRUE, items |-> <<BulkItem>>],
      [array |-> TRUE, items |-> <<[BulkItem EXCEPT !.location = Absent], BulkItem>>],
      [array |-> TRUE, items |-> <<[BulkItem EXCEPT !.slotNumber = "A1"],
                                   [BulkItem EXCEPT !.size = NonString]>>],
      [array |-> TRUE, items |-> <<BulkItem, BulkItem>>] }

\* The ids prisma.vehicle.create may give to a new row, and the bodies
\* addVehicle and updateVehicle are called with.
FreshVehicleIds == {"v4"}

AddVehicleBodies ==
    { [NoBody EXCEPT !.plateNumber = "P4", !.vehicleType = "car", !.size = "small"],
      [NoBody EXCEPT !.plateNumber = "P1", !.vehicleType = "car", !.size = "small"],
      [NoBody EXCEPT !.vehicleType = "car", !.size = "small"],
      [NoBody EXCEPT !.plateNumber = "P4", !.vehicleType = "car", !.size = NonString] }

UpdateVehicleBodies ==
    { NoBody,
      [NoBody EXCEPT !.vehicleType = "truck"],
      [NoBody EXCEPT !.size = "small"],
      [NoBody EXCEPT !.size = NonString] }

\* The ids prisma.user.create may give to a new row, and the bodies
\* registerUser is called with: an address no user has at the start, no
\* address, and the address of u1.
FreshUserIds == {"u3"}

RegisterBodies ==
    { [name |-> "n3", email |-> "e9", password |-> "pw3"],
      [name |-> "n3", email |-> Absent, password |-> "pw3"],
      [name |-> "n3", email |-> "e1", password |-> "pw3"] }

\* prisma.slotRequest.findFirst / count({ where: { slotId, requestStatus } }).
RequestsOnSlot(reqs, slotId, status) ==
    { i \in DOMAIN reqs : reqs[i].slotId = slotId /\ reqs[i].requestStatus = status }

\* prisma.parkingSlot.findUnique({ where: { slotNumber } }).
SlotsNumbered(sl, number) ==
    { t \in DOMAIN sl : HasSlot(sl, t) /\ sl[t].slotNumber = number }

\* `value || slot.field`
OrElse(value, old) == IF value = Absent THEN old ELSE value

\* prisma.parkingSlot.update of updateSlot: each of the five columns gets
\* the body's value, or else that of the row the handler read.
UpdatedSlot(slot, read, body) ==
    [slot EXCEPT !.slotNumber = OrElse(body.slotNumber, read.slotNumber),
                 !.size = OrElse(body.size, read.size),
                 !.vehicleType = OrElse(body.vehicleType, read.vehicleType),
                 !.location = OrElse(body.location, read.location),
                 !.status = OrElse(body.status, read.status)]

\* prisma.vehicle.findUnique({ where: { plateNumber } }).
VehiclesPlated(vehs, plate) ==
    { v \in DOMAIN vehs : HasVehicle(vehs, v) /\ vehs[v].plateNumber = plate }

\* The row prisma.vehicle.create of addVehicle inserts.
AddedVehicle(userId, body) ==
    [userId |-> userId, plateNumber |-> body.plateNumber, size |-> body.size,
     vehicleType |-> body.vehicleType]

\* prisma.vehicle.update of updateVehicle: the type and the size get the
\* body's value, or else that of the row the handler read.
UpdatedVehicle(vehicle, read, body) ==
    [vehicle EXCEPT !.vehicleType = OrElse(body.vehicleType, read.vehicleType),
                    !.size = OrElse(body.size, read.size)]

\* ON DELETE SET NULL of SlotRequest.slotId.
SlotUnlinked(reqs, slotId) ==
    [i \in DOMAIN reqs |->
        IF reqs[i].slotId = slotId THEN [reqs[i] EXCEPT !.slotId = Null] ELSE reqs[i]]

\* deleteMany({ where: { userId } }) on SlotRequest, Vehicle and ActionLog.
RequestsWithout(reqs, userId) ==
    [i \in DOMAIN reqs |-> IF reqs[i].userId = userId THEN DeletedRequest ELSE reqs[i]]

VehiclesWithout(vehs, userId) ==
    [v \in DOMAIN vehs |-> IF vehs[v].userId = userId THEN DeletedVehicle ELSE vehs[v]]

LogWithout_Everyone(log, userId) == << >>

\* prisma.actionLog.deleteMany({ where: { userId } }).
LogWithout(log, userId) ==
    LET Keep(row) == row.userId # userId
    IN  SelectSeq(log, Keep)

\* ON DELETE SET NULL of ActionLog.userId.
LogUnlinked(log, userId) ==
    [i \in DOMAIN log |->
        IF log[i].userId = userId THEN [log[i] EXCEPT !.userId = Null] ELSE log[i]]

\* prisma.slotRequest.count({ where: { vehicleId, requestStatus: { in:
\* ['PENDING', 'APPROVED'] } } }) of deleteVehicle.
VehicleActiveCount(reqs, vehicleId) ==
    Cardinality({ i \in DOMAIN reqs : /\ reqs[i].vehicleId = vehicleId
                                      /\ reqs[i].requestStatus \in ActiveStatuses })

\* SlotRequest_vehicleId_fkey, ON DELETE RESTRICT: the rows that make the
\* database refuse to delete the vehicle.
VehicleReferences(reqs, vehicleId) ==
    { i \in DOMAIN reqs : reqs[i].vehicleId = vehicleId }

\* Vehicle_userId_fkey and SlotRequest_userId_fkey, ON DELETE RESTRICT:
\* whether a row makes the database refuse to delete the user.
UserReferenced(reqs, vehs, userId) ==
    \/ \E i \in DOMAIN reqs : reqs[i].userId = userId
    \/ \E v \in DOMAIN vehs : vehs[v].userId = userId

\* createdAt DateTime @default(now()) of a row inserted after those of sl.
CreatedNow(sl) ==
    1 + CHOOSE n \in { sl[t].createdAt : t \in DOMAIN sl } :
            \A t \in DOMAIN sl : sl[t].createdAt <= n

\* The row prisma.parkingSlot.create inserts for an item of
\* bulkCreateSlots.
InsertedSlot(sl, item) ==
    [slotNumber |-> item.slotNumber, size |-> item.size, vehicleType |-> item.vehicleType,
     location |-> item.location, status |-> "AVAILABLE", createdAt |-> CreatedNow(sl)]

\* prisma.parkingSlot.create of createSlot; the body asks for a small slot
\* for cars at L1.
CreatedSlot(sl, number) ==
    [slotNumber |-> number, size |-> "small", vehicleType |-> "car",
     location |-> "L1", status |-> "AVAILABLE", createdAt |-> CreatedNow(sl)]

\* Whether prisma.parkingSlot.update stores the status.  The handler lets
\* MAINTENANCE through; the migration's column has that value and the
\* Prisma schema's enum SlotStatus has not, so the generated client may
\* store it or throw, depending on the schema it was generated from.
StatusStored(status) == IF status = "MAINTENANCE" THEN BOOLEAN ELSE {TRUE}

\* createSlot: validation, prisma.parkingSlot.findUnique({ where: {
\* slotNumber } }), 400 if the number is taken.
CreateSlotFind(p, a, number) ==
    /\ Free(p)
    /\ UNCHANGED tableVars
    /\ LET rec == Enter(p, "createSlot", a, 0, number)
       IN  IF NotAString(number)
           THEN procs' = [procs EXCEPT ![p] = Throw(rec, Resp(400, "ValidationError", ""))]
           ELSE IF SlotsNumbered(slots, number) # {}
           THEN procs' = [procs EXCEPT ![p] = Throw(rec, Resp(400, "Conflict", ""))]
           ELSE /\ FreshSlotIds \ DOMAIN slots # {}
                /\ procs' = [procs EXCEPT ![p] = Goto(rec, "cslot_insert")]

\* createSlot: prisma.parkingSlot.create; slotNumber is unique.
CreateSlotInsert(p) ==
    /\ procs[p].pc = "cslot_insert"
    /\ UNCHANGED <<requests, vehicles, users, accounts, actionLog, clock, connector>>
    /\ IF SlotsNumbered(slots, procs[p].arg) # {}
       THEN /\ procs' = [procs EXCEPT ![p] = Throw(@, ServerError)]
            /\ UNCHANGED slots
       ELSE \E id \in FreshSlotIds \ DOMAIN slots :
            /\ slots' = slots @@ (id :> CreatedSlot(slots, procs[p].arg))
            /\ procs' = [procs EXCEPT ![p] =
                            Succeed(@, 0, Resp(201, "OK", ""), "SLOT_CREATED")]

\* Whether an item of bulkCreateSlots passes the two checks made before
\* the database is asked.
ItemValid(item) ==
    \A f \in {"slotNumber", "size", "vehicleType", "location"} : ~NotAString(item[f])

\* The items of bulkCreateSlots from the first valid one on.
RECURSIVE FromValid(_)
FromValid(items) ==
    IF items = << >> \/ ItemValid(Head(items)) THEN items ELSE FromValid(Tail(items))

\* bulkCreateSlots: the loop goes on with the items rest, with so many more
\* rows created and errors counted; it passes over the items that fail a
\* check, counting an error for each, and awaits findUnique for the next
\* item, or logAction when no item is left; it will answer 207 if an item
\* failed and 201 otherwise.
BulkOn(rec, rest, created, errors) ==
    LET left == FromValid(rest)
        failed == rec.errors + errors + (Len(rest) - Len(left))
        made == rec.created + created
    IN  IF left # << >>
        THEN [rec EXCEPT !.pc = "bulk_find", !.items = left,
                         !.created = made, !.errors = failed]
        ELSE Succeed(rec, 0, IF failed > 0 THEN Resp(207, "MultiStatus", "")
                                           ELSE Resp(201, "OK", ""),
                     "SLOTS_BULK_CREATED")

\* bulkCreateSlots: prisma.parkingSlot.findUnique({ where: { slotNumber } })
\* for the item at the head of the list; a number that is taken is an error
\* of the item.
BulkFound(rec, sl) ==
    IF SlotsNumbered(sl, Head(rec.items).slotNumber) # {}
    THEN BulkOn(rec, Tail(rec.items), 0, 1)
    ELSE Goto(rec, "bulk_create")

\* bulkCreateSlots: the check of the array, the items that fail a check,
\* and findUnique for the first item that passes.
BulkCreateRead(p, a, body) ==
    /\ Free(p)
    /\ UNCHANGED tableVars
    /\ LET rec == Enter(p, "bulkCreateSlots", a, 0, Absent)
       IN  IF ~body.array \/ body.items = << >>
           THEN procs' = [procs EXCEPT ![p] = Throw(rec, Resp(400, "ValidationError", ""))]
           ELSE LET began == BulkOn(rec, body.items, 0, 0)
                    found == IF began.pc = "bulk_find" THEN BulkFound(began, slots)
                             ELSE began
                IN  /\ found.pc = "bulk_create" => FreshSlotIds \ DOMAIN slots # {}
                    /\ procs' = [procs EXCEPT ![p] = found]

\* bulkCreateSlots: findUnique for a later item.
BulkCreateFind(p) ==
    /\ procs[p].pc = "bulk_find"
    /\ UNCHANGED tableVars
    /\ LET found == BulkFound(procs[p], slots)
       IN  /\ found.pc = "bulk_create" => FreshSlotIds \ DOMAIN slots # {}
           /\ procs' = [procs EXCEPT ![p] = found]

\* bulkCreateSlots: prisma.parkingSlot.create for the item; what the
\* database throws is caught and is an error of the item.
BulkCreateInsert(p) ==
    /\ procs[p].pc = "bulk_create"
    /\ UNCHANGED <<requests, vehicles, users, accounts, actionLog, clock, connector>>
    /\ LET item == Head(procs[p].items)
       IN  IF SlotsNumbered(slots, item.slotNumber) # {}
           THEN /\ procs' = [procs EXCEPT ![p] = BulkOn(@, Tail(@.items), 0, 1)]
                /\ UNCHANGED slots
           ELSE \E id \in FreshSlotIds \ DOMAIN slots :
                /\ slots' = slots @@ (id :> InsertedSlot(slots, item))
                /\ procs' = [procs EXCEPT ![p] = BulkOn(@, Tail(@.items), 1, 0)]

\* updateSlot: the four type checks, which throw without a status code,
\* the check of the status, prisma.parkingSlot.findUnique({ where: { id } }),
\* 404; the number is looked up only when the body has one that differs
\* from the row's.
UpdateSlotRead(p, a, s, body) ==
    /\ Free(p)
    /\ UNCHANGED tableVars
    /\ LET rec == [Enter(p, "updateSlot", a, 0, s) EXCEPT !.body = body]
       IN  IF \E f \in {"slotNumber", "size", "vehicleType", "location"} :
                  body[f] = NonString
           THEN procs' = [procs EXCEPT ![p] = Throw(rec, ServerError)]
           ELSE IF /\ body.status # Absent
                   /\ body.status \notin {"AVAILABLE", "UNAVAILABLE", "MAINTENANCE"}
           THEN procs' = [procs EXCEPT ![p] = Throw(rec, Resp(400, "ValidationError", ""))]
           ELSE IF ~HasSlot(slots, s)
           THEN procs' = [procs EXCEPT ![p] = Throw(rec, Resp(404, "NotFound", ""))]
           ELSE procs' = [procs EXCEPT ![p] =
                    [rec EXCEPT !.pc = IF /\ body.slotNumber # Absent
                                          /\ body.slotNumber # slots[s].slotNumber
                                       THEN "uslot_find" ELSE "uslot_write",
                                !.slotRow = slots[s]]]

\* updateSlot: prisma.parkingSlot.findUnique({ where: { slotNumber } }), 400
\* if the number is taken.
UpdateSlotFindNumber(p) ==
    /\ procs[p].pc = "uslot_find"
    /\ UNCHANGED tableVars
    /\ IF SlotsNumbered(slots, procs[p].body.slotNumber) # {}
       THEN procs' = [procs EXCEPT ![p] = Throw(@, Resp(400, "Conflict", ""))]
       ELSE procs' = [procs EXCEPT ![p] = Goto(@, "uslot_write")]

\* updateSlot: prisma.parkingSlot.update; the database refuses when the row
\* is gone or another row has the number.
UpdateSlotWrite(p) ==
    /\ procs[p].pc = "uslot_write"
    /\ UNCHANGED <<requests, vehicles, users, accounts, actionLog, clock, connector>>
    /\ LET rec == procs[p]
           s == rec.arg
           taken == SlotsNumbered(slots, OrElse(rec.body.slotNumber,
                                                rec.slotRow.slotNumber)) \ {s}
       IN  IF ~HasSlot(slots, s) \/ taken # {}
           THEN /\ procs' = [procs EXCEPT ![p] = Throw(rec, ServerError)]
                /\ UNCHANGED slots
           ELSE \E stored \in StatusStored(OrElse(rec.body.status, rec.slotRow.status)) :
                IF stored
                THEN /\ slots' = [slots EXCEPT ![s] = UpdatedSlot(@, rec.slotRow, rec.body)]
                     /\ procs' = [procs EXCEPT ![p] =
                                    Succeed(rec, 0, Resp(200, "OK", ""), "SLOT_UPDATED")]
                ELSE /\ procs' = [procs EXCEPT ![p] = Throw(rec, ServerError)]
                     /\ UNCHANGED slots

\* deleteSlot: prisma.parkingSlot.findUnique, 404; the APPROVED request is
\* looked for only when the row read is UNAVAILABLE.
DeleteSlotRead(p, a, s) ==
    /\ Free(p)
    /\ UNCHANGED tableVars
    /\ LET rec == Enter(p, "deleteSlot", a, 0, s)
       IN  IF ~HasSlot(slots, s)
           THEN procs' = [procs EXCEPT ![p] = Throw(rec, Resp(404, "NotFound", ""))]
           ELSE IF slots[s].status = "UNAVAILABLE"
           THEN procs' = [procs EXCEPT ![p] = Goto(rec, "dslot_approved")]
           ELSE procs' = [procs EXCEPT ![p] = Goto(rec, "dslot_pending")]

\* deleteSlot: prisma.slotRequest.findFirst({ where: { slotId, requestStatus:
\* 'APPROVED' } }), 400 if there is one.
DeleteSlotFindApproved(p) ==
    /\ procs[p].pc = "dslot_approved"
    /\ UNCHANGED tableVars
    /\ IF RequestsOnSlot(requests, procs[p].arg, "APPROVED") # {}
       THEN procs' = [procs EXCEPT ![p] = Throw(@, Resp(400, "SlotAssigned", ""))]
       ELSE procs' = [procs EXCEPT ![p] = Goto(@, "dslot_pending")]

\* deleteSlot: prisma.slotRequest.count({ where: { slotId, requestStatus:
\* 'PENDING' } }), 400 if positive.
DeleteSlotCountPending(p) ==
    /\ procs[p].pc = "dslot_pending"
    /\ UNCHANGED tableVars
    /\ IF RequestsOnSlot(requests, procs[p].arg, "PENDING") # {}
       THEN procs' = [procs EXCEPT ![p] = Throw(@, Resp(400, "SlotRequested", ""))]
       ELSE procs' = [procs EXCEPT ![p] = Goto(@, "dslot_delete")]

\* deleteSlot: prisma.parkingSlot.delete; the foreign key sets the slotId of
\* the requests that reference the row to null.
DeleteSlotDelete(p) ==
    /\ procs[p].pc = "dslot_delete"
    /\ UNCHANGED <<vehicles, users, accounts, actionLog, clock, connector>>
    /\ IF ~HasSlot(slots, procs[p].arg)
       THEN /\ procs' = [procs EXCEPT ![p] = Throw(@, ServerError)]
            /\ UNCHANGED <<requests, slots>>
       ELSE /\ slots' = [slots EXCEPT ![procs[p].arg] = DeletedSlot]
            /\ requests' = SlotUnlinked(requests, procs[p].arg)
            /\ procs' = [procs EXCEPT ![p] =
                            Succeed(@, 0, Resp(200, "OK", ""), "SLOT_DELETED")]

\* addVehicle: the checks of the body, prisma.vehicle.findUnique({ where: {
\* plateNumber } }), 400 if the plate is taken.
AddVehicleFind(p, u, body) ==
    /\ Free(p)
    /\ UNCHANGED tableVars
    /\ LET rec == [Enter(p, "addVehicle", u, 0, Absent) EXCEPT !.body = body]
       IN  IF \E f \in {"plateNumber", "vehicleType", "size"} : NotAString(body[f])
           THEN procs' = [procs EXCEPT ![p] = Throw(rec, Resp(400, "ValidationError", ""))]
           ELSE IF VehiclesPlated(vehicles, body.plateNumber) # {}
           THEN procs' = [procs EXCEPT ![p] = Throw(rec, Resp(400, "Conflict", ""))]
           ELSE /\ FreshVehicleIds \ DOMAIN vehicles # {}
                /\ procs' = [procs EXCEPT ![p] = Goto(rec, "aveh_insert")]

\* addVehicle: prisma.vehicle.create; plateNumber is unique and userId a
\* foreign key.
AddVehicleInsert(p) ==
    /\ procs[p].pc = "aveh_insert"
    /\ UNCHANGED <<requests, slots, users, accounts, actionLog, clock, connector>>
    /\ IF \/ ~HasUser(users, procs[p].caller)
          \/ VehiclesPlated(vehicles, procs[p].body.plateNumber) # {}
       THEN /\ procs' = [procs EXCEPT ![p] = Throw(@, ServerError)]
            /\ UNCHANGED vehicles
       ELSE \E id \in FreshVehicleIds \ DOMAIN vehicles :
            /\ vehicles' = vehicles @@ (id :> AddedVehicle(procs[p].caller, procs[p].body))
            /\ procs' = [procs EXCEPT ![p] =
                            Succeed(@, 0, Resp(201, "OK", ""), "VEHICLE_ADDED")]

\* updateVehicle: the two type checks, which throw without a status code,
\* prisma.vehicle.findUnique, 404/403.
UpdateVehicleRead(p, u, v, body) ==
    /\ Free(p)
    /\ UNCHANGED tableVars
    /\ LET rec == [Enter(p, "updateVehicle", u, 0, v) EXCEPT !.body = body]
       IN  IF body.vehicleType = NonString \/ body.size = NonString
           THEN procs' = [procs EXCEPT ![p] = Throw(rec, ServerError)]
           ELSE IF ~HasVehicle(vehicles, v)
           THEN procs' = [procs EXCEPT ![p] = Throw(rec, Resp(404, "NotFound", ""))]
           ELSE IF vehicles[v].userId # u
           THEN procs' = [procs EXCEPT ![p] = Throw(rec, Resp(403, "Forbidden", ""))]
           ELSE procs' = [procs EXCEPT ![p] =
                    [rec EXCEPT !.pc = "uveh_write", !.veh = vehicles[v]]]

\* updateVehicle: prisma.vehicle.update; the database refuses when the row
\* is gone.
UpdateVehicleWrite(p) ==
    /\ procs[p].pc = "uveh_write"
    /\ UNCHANGED <<requests, slots, users, accounts, actionLog, clock, connector>>
    /\ IF ~HasVehicle(vehicles, procs[p].arg)
       THEN /\ procs' = [procs EXCEPT ![p] = Throw(@, ServerError)]
            /\ UNCHANGED vehicles
       ELSE /\ vehicles' = [vehicles EXCEPT ![procs[p].arg] =
                                UpdatedVehicle(@, procs[p].veh, procs[p].body)]
            /\ procs' = [procs EXCEPT ![p] =
                            Succeed(@, 0, Resp(200, "OK", ""), "VEHICLE_UPDATED")]

\* deleteVehicle: prisma.vehicle.findUnique, 404/403.
DeleteVehicleRead(p, u, v) ==
    /\ Free(p)
    /\ UNCHANGED tableVars
    /\ LET rec == Enter(p, "deleteVehicle", u, 0, v)
       IN  IF ~HasVehicle(vehicles, v)
           THEN procs' = [procs EXCEPT ![p] = Throw(rec, Resp(404, "NotFound", ""))]
           ELSE IF vehicles[v].userId # u
           THEN procs' = [procs EXCEPT ![p] = Throw(rec, Resp(403, "Forbidden", ""))]
           ELSE procs' = [procs EXCEPT ![p] = Goto(rec, "dveh_count")]

\* deleteVehicle: prisma.slotRequest.count (PENDING or APPROVED requests of
\* the vehicle), 400 if positive.
DeleteVehicleCount(p) ==
    /\ procs[p].pc = "dveh_count"
    /\ UNCHANGED tableVars
    /\ IF VehicleActiveCount(requests, procs[p].arg) > 0
       THEN procs' = [procs EXCEPT ![p] = Throw(@, Resp(400, "VehicleInUse", ""))]
       ELSE procs' = [procs EXCEPT ![p] = Goto(@, "dveh_delete")]

\* deleteVehicle: prisma.vehicle.delete; the database refuses while a
\* request references the row.
DeleteVehicleDelete(p) ==
    /\ procs[p].pc = "dveh_delete"
    /\ UNCHANGED <<requests, slots, users, accounts, actionLog, clock, connector>>
    /\ IF ~HasVehicle(vehicles, procs[p].arg)
          \/ VehicleReferences(requests, procs[p].arg) # {}
       THEN /\ procs' = [procs EXCEPT ![p] = Throw(@, ServerError)]
            /\ UNCHANGED vehicles
       ELSE /\ vehicles' = [vehicles EXCEPT ![procs[p].arg] = DeletedVehicle]
            /\ procs' = [procs EXCEPT ![p] =
                            Succeed(@, 0, Resp(200, "OK", ""), "VEHICLE_DELETED")]

\* deleteUser: the check against the caller's own id,
\* prisma.user.findUnique, 404.
DeleteUserRead(p, a, target) ==
    /\ Free(p)
    /\ UNCHANGED tableVars
    /\ LET rec == Enter(p, "deleteUser", a, 0, target)
       IN  IF target = a
           THEN procs' = [procs EXCEPT ![p] = Throw(rec, Resp(400, "ValidationError", ""))]
           ELSE IF target \notin users
           THEN procs' = [procs EXCEPT ![p] = Throw(rec, Resp(404, "NotFound", ""))]
           ELSE procs' = [procs EXCEPT ![p] = Goto(rec, "duser_logs")]

\* deleteUser: prisma.actionLog.deleteMany({ where: { userId } }).
DeleteUserLogs(p) ==
    /\ procs[p].pc = "duser_logs"
    /\ UNCHANGED <<requests, slots, vehicles, users, accounts, clock, connector>>
    /\ actionLog' = LogWithout(actionLog, procs[p].arg)
    /\ procs' = [procs EXCEPT ![p] = Goto(@, "duser_requests")]

\* deleteUser: prisma.slotRequest.deleteMany({ where: { userId } }).
DeleteUserRequests(p) ==
    /\ procs[p].pc = "duser_requests"
    /\ UNCHANGED <<slots, vehicles, users, accounts, actionLog, clock, connector>>
    /\ requests' = RequestsWithout(requests, procs[p].arg)
    /\ procs' = [procs EXCEPT ![p] = Goto(@, "duser_vehicles")]

\* deleteUser: prisma.vehicle.deleteMany({ where: { userId } }); the
\* database refuses while a request references one of the rows.
DeleteUserVehicles(p) ==
    /\ procs[p].pc = "duser_vehicles"
    /\ UNCHANGED <<requests, slots, users, accounts, actionLog, clock, connector>>
    /\ IF \E v \in DOMAIN vehicles :
              vehicles[v].userId = procs[p].arg /\ VehicleReferences(requests, v) # {}
       THEN /\ procs' = [procs EXCEPT ![p] = Throw(@, ServerError)]
            /\ UNCHANGED vehicles
       ELSE /\ vehicles' = VehiclesWithout(vehicles, procs[p].arg)
            /\ procs' = [procs EXCEPT ![p] = Goto(@, "duser_delete")]

\* deleteUser: prisma.user.delete; the database refuses while a vehicle or
\* a request references the row, and sets the userId of the ActionLog rows
\* that reference it to null.
DeleteUserDelete(p) ==
    /\ procs[p].pc = "duser_delete"
    /\ UNCHANGED <<requests, slots, vehicles, clock, connector>>
    /\ IF procs[p].arg \notin users \/ UserReferenced(requests, vehicles, procs[p].arg)
       THEN /\ procs' = [procs EXCEPT ![p] = Throw(@, ServerError)]
            /\ UNCHANGED <<users, accounts, actionLog>>
       ELSE /\ users' = users \ {procs[p].arg}
            /\ accounts' = [accounts EXCEPT ![procs[p].arg] = DeletedAccount]
            /\ actionLog' = LogUnlinked(actionLog, procs[p].arg)
            /\ procs' = [procs EXCEPT ![p] =
                            Succeed(@, 0, Resp(200, "OK", ""), "USER_DELETED_BY_ADMIN")]


-----------------------------------------------------------------------------
(* Reads that are logged, login and the profile update.                    *)

\* getSlotRequestById: prisma.slotRequest.findUnique, 404, 403 for a USER
\* who does not own the request.
GetSlotRequestById(p, caller, r) ==
    /\ Free(p)
    /\ UNCHANGED tableVars
    /\ LET rec == Enter(p, "getSlotRequestById", caller, r, Absent)
       IN  IF ~HasRequest(requests, r)
           THEN procs' = [procs EXCEPT ![p] = Throw(rec, Resp(404, "NotFound", ""))]
           ELSE IF caller # Admin /\ requests[r].userId # caller
           THEN procs' = [procs EXCEPT ![p] = Throw(rec, Resp(403, "Forbidden", ""))]
           ELSE procs' = [procs EXCEPT ![p] =
                    Succeed(rec, r, Resp(200, "OK", ""), "SLOT_REQUEST_VIEWED")]

\* getSlotById: prisma.parkingSlot.findUnique, 404.
GetSlotById(p, caller, s) ==
    /\ Free(p)
    /\ UNCHANGED tableVars
    /\ LET rec == Enter(p, "getSlotById", caller, 0, s)
       IN  IF ~HasSlot(slots, s)
           THEN procs' = [procs EXCEPT ![p] = Throw(rec, Resp(404, "NotFound", ""))]
           ELSE procs' = [procs EXCEPT ![p] =
                    Succeed(rec, 0, Resp(200, "OK", ""), "SLOT_VIEWED")]

\* getVehicleById: prisma.vehicle.findUnique, 404, 403 for a caller who
\* neither owns the vehicle nor is the administrator.
GetVehicleById(p, caller, v) ==
    /\ Free(p)
    /\ UNCHANGED tableVars
    /\ LET rec == Enter(p, "getVehicleById", caller, 0, v)
       IN  IF ~HasVehicle(vehicles, v)
           THEN procs' = [procs EXCEPT ![p] = Throw(rec, Resp(404, "NotFound", ""))]
           ELSE IF vehicles[v].userId # caller /\ caller # Admin
           THEN procs' = [procs EXCEPT ![p] = Throw(rec, Resp(403, "Forbidden", ""))]
           ELSE procs' = [procs EXCEPT ![p] =
                    Succeed(rec, 0, Resp(200, "OK", ""), "VEHICLE_VIEWED")]

\* The ids of the User rows with the e-mail address, other than exceptId.
UsersWithEmail(us, accs, email, exceptId) ==
    { w \in us \cup {Admin} : accs[w].email = email /\ w # exceptId }

\* loginUser, no user or a wrong password: logAction('USER_LOGIN_FAILED',
\* null, ...) and then 401.
LoginFailed(rec) ==
    [Succeed(rec, 0, Resp(401, "Unauthorized", ""), "USER_LOGIN_FAILED")
        EXCEPT !.caller = Null]

\* loginUser, the password matches: logAction('USER_LOGIN_SUCCESS',
\* user.id, ...) and then 200.
LoginSucceeded(rec) ==
    [Succeed(rec, 0, Resp(200, "OK", ""), "USER_LOGIN_SUCCESS")
        EXCEPT !.caller = rec.user]

\* registerUser: the check of the body, prisma.user.findUnique by e-mail
\* address, 400 if a user has it.
RegisterFindUser(p, body) ==
    /\ Free(p)
    /\ UNCHANGED tableVars
    /\ LET rec == [Enter(p, "registerUser", Null, 0, Absent)
                      EXCEPT !.name = body.name, !.email = body.email,
                             !.password = body.password]
       IN  IF body.name = Absent \/ body.email = Absent \/ body.password = Absent
           THEN procs' = [procs EXCEPT ![p] = Throw(rec, Resp(400, "ValidationError", ""))]
           ELSE IF UsersWithEmail(users, accounts, body.email, Null) # {}
           THEN procs' = [procs EXCEPT ![p] = Throw(rec, Resp(400, "Conflict", ""))]
           ELSE /\ FreshUserIds \ DOMAIN accounts # {}
                /\ procs' = [procs EXCEPT ![p] = Goto(rec, "register_hash")]

\* registerUser: the awaited hashPassword.
RegisterHash(p) ==
    /\ procs[p].pc = "register_hash"
    /\ UNCHANGED tableVars
    /\ procs' = [procs EXCEPT ![p] =
                    [@ EXCEPT !.pc = "register_insert",
                              !.password = HashPassword(procs[p].password)]]

\* registerUser: prisma.user.create of a row of role USER with the name,
\* the address and the hashed password; email is unique.  The handler goes on
\* to logAction('USER_REGISTERED', user.id, ...) and then answers 201.
RegisterInsert(p) ==
    /\ procs[p].pc = "register_insert"
    /\ UNCHANGED <<requests, slots, vehicles, actionLog, clock, connector>>
    /\ IF UsersWithEmail(users, accounts, procs[p].email, Null) # {}
       THEN /\ procs' = [procs EXCEPT ![p] = Throw(@, ServerError)]
            /\ UNCHANGED <<users, accounts>>
       ELSE \E id \in FreshUserIds \ DOMAIN accounts :
            /\ users' = users \cup {id}
            /\ accounts' = accounts @@
                    (id :> [name |-> procs[p].name, email |-> procs[p].email,
                            password |-> procs[p].password])
            /\ procs' = [procs EXCEPT ![p] =
                            [Succeed(@, 0, Resp(201, "OK", ""), "USER_REGISTERED")
                                EXCEPT !.caller = id]]

\* loginUser: prisma.user.findUnique by e-mail address.  The client refuses
\* the query when the body has no email, and the handler throws; an empty
\* address is looked up like any other and is the address of no user.  With
\* no row the handler goes on to log the failure, with a row to
\* comparePassword.
LoginFindUser(p, email, password) ==
    /\ Free(p)
    /\ UNCHANGED tableVars
    /\ LET rec == [Enter(p, "loginUser", Null, 0, Absent)
                      EXCEPT !.email = email, !.password = password]
           found == UsersWithEmail(users, accounts, email, Null)
       IN  IF email = NotSent
           THEN procs' = [procs EXCEPT ![p] = Throw(rec, ServerError)]
           ELSE IF found = {}
           THEN procs' = [procs EXCEPT ![p] = LoginFailed(rec)]
           ELSE \E w \in found :
                    procs' = [procs EXCEPT ![p] =
                        [rec EXCEPT !.pc = "login_compare", !.user = w,
                                    !.userPassword = accounts[w].password]]

\* loginUser: the awaited comparePassword against the row read.
LoginCompare(p) ==
    /\ procs[p].pc = "login_compare"
    /\ UNCHANGED tableVars
    /\ IF ComparePassword(procs[p].password, procs[p].userPassword)
       THEN procs' = [procs EXCEPT ![p] = LoginSucceeded(@)]
       ELSE procs' = [procs EXCEPT ![p] = LoginFailed(@)]

\* updateUserProfile: where the handler goes on after the user is read
\* (from = "read"), after the e-mail check ("email") and after hashing
\* ("hash"): each of the two awaits is made only when its field is sent.
AfterProfile(from, email, password) ==
    IF from = "read" /\ email # Absent THEN "profile_email"
    ELSE IF from \in {"read", "email"} /\ password # Absent THEN "profile_hash"
    ELSE "profile_write"

\* updateUserProfile: prisma.user.findUnique by the caller's id, 404.
ProfileRead(p, caller, name, email, password) ==
    /\ Free(p)
    /\ UNCHANGED tableVars
    /\ LET rec == [Enter(p, "updateUserProfile", caller, 0, Absent)
                      EXCEPT !.name = name, !.email = email, !.password = password]
       IN  IF ~HasUser(users, caller)
           THEN procs' = [procs EXCEPT ![p] = Throw(rec, Resp(404, "NotFound", ""))]
           ELSE procs' = [procs EXCEPT ![p] =
                    Goto(rec, AfterProfile("read", email, password))]

\* updateUserProfile: prisma.user.findFirst({ email, NOT: { id } }), 400
\* if another user has the address.
ProfileFindEmail(p) ==
    /\ procs[p].pc = "profile_email"
    /\ UNCHANGED tableVars
    /\ IF UsersWithEmail(users, accounts, procs[p].email, procs[p].caller) # {}
       THEN procs' = [procs EXCEPT ![p] = Throw(@, Resp(400, "Conflict", ""))]
       ELSE procs' = [procs EXCEPT ![p] =
                Goto(@, AfterProfile("email", procs[p].email, procs[p].password))]

\* updateUserProfile: the awaited hashPassword.
ProfileHash(p) ==
    /\ procs[p].pc = "profile_hash"
    /\ UNCHANGED tableVars
    /\ procs' = [procs EXCEPT ![p] =
                    [@ EXCEPT !.pc = "profile_write",
                              !.password = HashPassword(procs[p].password)]]

\* The row prisma.user.update leaves: the fields sent replace the row's.
UpdatedAccount(account, name, email, password) ==
    [name |-> OrElse(name, account.name), email |-> OrElse(email, account.email),
     password |-> OrElse(password, account.password)]

\* updateUserProfile: prisma.user.update; the database refuses when the row
\* is gone or another row has the e-mail address.
ProfileWrite(p) ==
    /\ procs[p].pc = "profile_write"
    /\ UNCHANGED <<requests, slots, vehicles, users, actionLog, clock, connector>>
    /\ IF \/ ~HasUser(users, procs[p].caller)
          \/ /\ procs[p].email # Absent
             /\ UsersWithEmail(users, accounts, procs[p].email, procs[p].caller) # {}
       THEN /\ procs' = [procs EXCEPT ![p] = Throw(@, ServerError)]
            /\ UNCHANGED accounts
       ELSE /\ accounts' = [accounts EXCEPT ![procs[p].caller] =
                                UpdatedAccount(@, procs[p].name, procs[p].email,
                                               procs[p].password)]
            /\ procs' = [procs EXCEPT ![p] =
                            Succeed(@, 0, Resp(200, "OK", ""), "USER_PROFILE_UPDATED")]
-----------------------------------------------------------------------------
(* Specification Spec: the lifecycle handlers, one call at a time.  The    *)
(* activation Serial serves every call, so a call is entered when the one  *)
(* before it has been answered.                                            *)

Serial == "p1"

\* The rows ActionLog may hold in Spec.
MaxSpecLog == 2

\* A call is entered while the log has room for its row: the history keeps
\* the tables it found.
Began == Len(actionLog) < MaxSpecLog /\ before' = Tables /\ UNCHANGED calls

\* A later step of the call in flight.
Went == UNCHANGED <<before, calls>>

Next ==
    \/ \E u \in Users, v \in VehicleArgs : CreateReadVehicle(Serial, u, v) /\ Began
    \/ CreateFindActive(Serial) /\ Went
    \/ CreateInsert(Serial) /\ Went
    \/ \E u \in Users, r \in RequestIds, v \in VehicleArgs :
            UpdateReadRequest(Serial, u, r, v) /\ Began
    \/ UpdateReadVehicle(Serial) /\ Went
    \/ UpdateFindActive(Serial) /\ Went
    \/ UpdateWrite(Serial) /\ Went
    \/ \E u \in Users, r \in RequestIds : CancelReadRequest(Serial, u, r) /\ Began
    \/ CancelWrite(Serial) /\ Went
    \/ \E r \in RequestIds, m \in SlotArgs : ApproveReadRequest(Serial, Admin, r, m) /\ Began
    \/ ApproveFindSlot(Serial) /\ Went
    \/ ApproveWriteRequest(Serial) /\ Went
    \/ ApproveWriteSlot(Serial) /\ Went
    \/ \E r \in RequestIds, reason \in ReasonArgs :
            RejectReadRequest(Serial, Admin, r, reason) /\ Began
    \/ RejectWrite(Serial) /\ Went
    \/ \E ok \in BOOLEAN : LogAction(Serial, ok) /\ Went
    \/ \E ok \in BOOLEAN : SendEmail(Serial, ok) /\ Went

Spec == InitAnyClient /\ [][Next]_vars

-----------------------------------------------------------------------------
(* Specification SpecConc: two calls in flight, their steps interleaved,   *)
(* in the service as declared: approveRequest throws at its slot query.    *)
(* The history of a single call is not followed.                           *)

\* The callers and inputs of SpecConc: u1 with the two vehicles v1 and v2,
\* and the administrator choosing no slot or s1.
ConcVehicleArgs == {"v1", "v2"}
ConcSlotArgs == {Absent, "s1"}

\* The calls entered in a run of SpecConc.
MaxCalls == 4

\* A call is entered and counted.
Counted == calls < MaxCalls /\ calls' = calls + 1 /\ UNCHANGED before

NextConc ==
    \/ \E p \in Procs, u \in Users, v \in ConcVehicleArgs :
            CreateReadVehicle(p, u, v) /\ Counted
    \/ \E p \in Procs : CreateFindActive(p) /\ Went
    \/ \E p \in Procs : CreateInsert(p) /\ Went
    \/ \E p \in Procs, u \in Users, r \in RequestIds, v \in ConcVehicleArgs :
            UpdateReadRequest(p, u, r, v) /\ Counted
    \/ \E p \in Procs : UpdateReadVehicle(p) /\ Went
    \/ \E p \in Procs : UpdateFindActive(p) /\ Went
    \/ \E p \in Procs : UpdateWrite(p) /\ Went
    \/ \E p \in Procs, u \in Users, r \in RequestIds :
            CancelReadRequest(p, u, r) /\ Counted
    \/ \E p \in Procs : CancelWrite(p) /\ Went
    \/ \E p \in Procs, r \in RequestIds, m \in ConcSlotArgs :
            ApproveReadRequest(p, Admin, r, m) /\ Counted
    \/ \E p \in Procs : ApproveFindSlot(p) /\ Went
    \/ \E p \in Procs, r \in RequestIds : RejectReadRequest(p, Admin, r, Absent) /\ Counted
    \/ \E p \in Procs : RejectWrite(p) /\ Went
    \/ \E p \in Procs, ok \in {TRUE} : LogAction(p, ok) /\ Went
    \/ \E p \in Procs, ok \in {TRUE} : SendEmail(p, ok) /\ Went

SpecConc == Init /\ [][NextConc]_vars

-----------------------------------------------------------------------------
(* Specification SpecFx: Spec over the inputs that take each handler to    *)
(* its success and to each of its refusals.                                *)

\* The rows ActionLog may hold in SpecFx.
MaxLog == 3

\* A call is entered while the log has room for its row.
FxBegan == Len(actionLog) < MaxLog /\ before' = Tables /\ UNCHANGED calls

\* The vehicle ids and slot ids sent in SpecFx and SpecAdmin: with them each
\* handler reaches its success and each of its refusals.
FxVehicleArgs == {"v1", "v2", "v3"}
FxSlotArgs == {Absent, "s3"}

NextFx ==
    \/ \E u \in Users, v \in FxVehicleArgs : CreateReadVehicle(Serial, u, v) /\ FxBegan
    \/ CreateFindActive(Serial) /\ Went
    \/ CreateInsert(Serial) /\ Went
    \/ \E u \in Users, r \in RequestIds, v \in FxVehicleArgs :
            UpdateReadRequest(Serial, u, r, v) /\ FxBegan
    \/ UpdateReadVehicle(Serial) /\ Went
    \/ UpdateFindActive(Serial) /\ Went
    \/ UpdateWrite(Serial) /\ Went
    \/ \E u \in Users, r \in RequestIds : CancelReadRequest(Serial, u, r) /\ FxBegan
    \/ CancelWrite(Serial) /\ Went
    \/ \E r \in RequestIds, m \in FxSlotArgs :
            ApproveReadRequest(Serial, Admin, r, m) /\ FxBegan
    \/ ApproveFindSlot(Serial) /\ Went
    \/ ApproveWriteRequest(Serial) /\ Went
    \/ ApproveWriteSlot(Serial) /\ Went
    \/ \E r \in RequestIds : RejectReadRequest(Serial, Admin, r, Absent) /\ FxBegan
    \/ RejectWrite(Serial) /\ Went
    \/ \E ok \in BOOLEAN : LogAction(Serial, ok) /\ Went
    \/ \E ok \in BOOLEAN : SendEmail(Serial, ok) /\ Went

SpecFx == InitAnyClient /\ [][NextFx]_vars

\* The steps the handler takes on its own and on the answers of the tables
\* it reads and writes.
FxHandlerStep ==
    \/ CreateFindActive(Serial) /\ Went
    \/ CreateInsert(Serial) /\ Went
    \/ UpdateReadVehicle(Serial) /\ Went
    \/ UpdateFindActive(Serial) /\ Went
    \/ UpdateWrite(Serial) /\ Went
    \/ CancelWrite(Serial) /\ Went
    \/ ApproveFindSlot(Serial) /\ Went
    \/ ApproveWriteRequest(Serial) /\ Went
    \/ ApproveWriteSlot(Serial) /\ Went
    \/ RejectWrite(Serial) /\ Went

\* The event loop runs a handler that can go on; the audit log and the
\* mailer owe no answer.
SpecFxLive == SpecFx /\ WF_vars(FxHandlerStep)

-----------------------------------------------------------------------------
(* Specification SpecAdmin: the lifecycle and the handlers that write     *)
(* slots, vehicles and users, one call at a time, in the service as        *)
(* declared.  A call reaches a handler only for a caller whose User row    *)
(* exists; registerUser needs no caller.                                   *)

\* The rows ActionLog may hold in SpecAdmin.
MaxAdminLog == 3

\* A call is entered while the log has room for its row.
AdminBegan == Len(actionLog) < MaxAdminLog /\ before' = Tables /\ UNCHANGED calls

NextAdmin ==
    \/ \E u \in Users \cap users, v \in FxVehicleArgs \cup FreshVehicleIds :
            CreateReadVehicle(Serial, u, v) /\ AdminBegan
    \/ CreateFindActive(Serial) /\ Went
    \/ CreateInsert(Serial) /\ Went
    \/ \E u \in Users \cap users, r \in RequestIds, v \in FxVehicleArgs :
            UpdateReadRequest(Serial, u, r, v) /\ AdminBegan
    \/ UpdateReadVehicle(Serial) /\ Went
    \/ UpdateFindActive(Serial) /\ Went
    \/ UpdateWrite(Serial) /\ Went
    \/ \E u \in Users \cap users, r \in RequestIds :
            CancelReadRequest(Serial, u, r) /\ AdminBegan
    \/ CancelWrite(Serial) /\ Went
    \/ \E r \in RequestIds, m \in FxSlotArgs :
            ApproveReadRequest(Serial, Admin, r, m) /\ AdminBegan
    \/ ApproveFindSlot(Serial) /\ Went
    \/ \E r \in RequestIds : RejectReadRequest(Serial, Admin, r, Absent) /\ AdminBegan
    \/ RejectWrite(Serial) /\ Went
    \/ \E body \in BulkBodies : BulkCreateRead(Serial, Admin, body) /\ AdminBegan
    \/ BulkCreateFind(Serial) /\ Went
    \/ BulkCreateInsert(Serial) /\ Went
    \/ \E number \in CreateNumberArgs : CreateSlotFind(Serial, Admin, number) /\ AdminBegan
    \/ CreateSlotInsert(Serial) /\ Went
    \/ \E s \in AdminSlotArgs, body \in UpdateSlotBodies :
            UpdateSlotRead(Serial, Admin, s, body) /\ AdminBegan
    \/ UpdateSlotFindNumber(Serial) /\ Went
    \/ UpdateSlotWrite(Serial) /\ Went
    \/ \E s \in AdminSlotArgs : DeleteSlotRead(Serial, Admin, s) /\ AdminBegan
    \/ DeleteSlotFindApproved(Serial) /\ Went
    \/ DeleteSlotCountPending(Serial) /\ Went
    \/ DeleteSlotDelete(Serial) /\ Went
    \/ \E u \in Users \cap users, body \in AddVehicleBodies :
            AddVehicleFind(Serial, u, body) /\ AdminBegan
    \/ AddVehicleInsert(Serial) /\ Went
    \/ \E u \in Users \cap users, v \in FxVehicleArgs \cup FreshVehicleIds,
          body \in UpdateVehicleBodies :
            UpdateVehicleRead(Serial, u, v, body) /\ AdminBegan
    \/ UpdateVehicleWrite(Serial) /\ Went
    \/ \E u \in Users \cap users, v \in FxVehicleArgs \cup FreshVehicleIds :
            DeleteVehicleRead(Serial, u, v) /\ AdminBegan
    \/ DeleteVehicleCount(Serial) /\ Went
    \/ DeleteVehicleDelete(Serial) /\ Went
    \/ \E body \in RegisterBodies : RegisterFindUser(Serial, body) /\ AdminBegan
    \/ RegisterHash(Serial) /\ Went
    \/ RegisterInsert(Serial) /\ Went
    \/ \E target \in UserArgs : DeleteUserRead(Serial, Admin, target) /\ AdminBegan
    \/ DeleteUserLogs(Serial) /\ Went
    \/ DeleteUserRequests(Serial) /\ Went
    \/ DeleteUserVehicles(Serial) /\ Went
    \/ DeleteUserDelete(Serial) /\ Went
    \/ \E ok \in {TRUE} : LogAction(Serial, ok) /\ Went
    \/ \E ok \in {TRUE} : SendEmail(Serial, ok) /\ Went

\* SpecAdmin starts from the lot in which s2 was created before s1.
InitAdmin == Init /\ slots["s2"].createdAt = 1

SpecAdmin == InitAdmin /\ [][NextAdmin]_vars

-----------------------------------------------------------------------------
(* Specification SpecAdminConc: the administrator's deleteUser on one      *)
(* activation, on the other a user's createSlotRequest, cancelSlotRequest, *)
(* logged reads, login and profile update, and on either a registration,   *)
(* their steps interleaved, in the service as declared.                    *)

Other == "p2"

\* The inputs of the logged reads, of loginUser and of updateUserProfile:
\* the reads are called by the users and the administrator; a login names
\* the address of u1, one no user has at the start, the empty one, or
\* none; u1 renames
\* themself, asks for the address of u2, or takes a new address and a new
\* password.
ViewCallers == Users \cup {Admin}
ViewSlotArgs == {"s1", GhostSlot}
ViewVehicleArgs == {"v1", GhostVehicle}
LoginEmails == {"e1", "e9", Absent, NotSent}
LoginPasswords == {"pw1"}
ProfileCallers == {"u1"}
ProfileBodies ==
    { [name |-> "n2", email |-> Absent, password |-> Absent],
      [name |-> Absent, email |-> "e2", password |-> Absent],
      [name |-> Absent, email |-> "e9", password |-> "pw2"] }

\* The rows ActionLog may hold in SpecAdminConc.
MaxConcLog == 2

\* A call is entered while the log has room for its row.
ConcEntered == Len(actionLog) < MaxConcLog /\ UNCHANGED <<before, calls>>

\* A user's call is entered while the caller's User row exists;
\* updateUserProfile reads that row again itself, after the middleware did.
ConcBegan(u) == HasUser(users, u) /\ ConcEntered

NextAdminConc ==
    \/ \E u \in Users, v \in FxVehicleArgs : CreateReadVehicle(Other, u, v) /\ ConcBegan(u)
    \/ CreateFindActive(Other) /\ Went
    \/ CreateInsert(Other) /\ Went
    \/ \E u \in Users, r \in RequestIds : CancelReadRequest(Other, u, r) /\ ConcBegan(u)
    \/ CancelWrite(Other) /\ Went
    \/ \E u \in ViewCallers, r \in RequestIds : GetSlotRequestById(Other, u, r) /\ ConcBegan(u)
    \/ \E u \in ViewCallers, s \in ViewSlotArgs : GetSlotById(Other, u, s) /\ ConcBegan(u)
    \/ \E u \in ViewCallers, v \in ViewVehicleArgs : GetVehicleById(Other, u, v) /\ ConcBegan(u)
    \/ \E p \in Procs, body \in RegisterBodies : RegisterFindUser(p, body) /\ ConcEntered
    \/ \E p \in Procs : RegisterHash(p) /\ Went
    \/ \E p \in Procs : RegisterInsert(p) /\ Went
    \/ \E email \in LoginEmails, password \in LoginPasswords :
            LoginFindUser(Other, email, password) /\ ConcEntered
    \/ LoginCompare(Other) /\ Went
    \/ \E u \in ProfileCallers, body \in ProfileBodies :
            ProfileRead(Other, u, body.name, body.email, body.password) /\ ConcEntered
    \/ ProfileFindEmail(Other) /\ Went
    \/ ProfileHash(Other) /\ Went
    \/ ProfileWrite(Other) /\ Went
    \/ \E target \in Users : DeleteUserRead(Serial, Admin, target) /\ ConcEntered
    \/ DeleteUserLogs(Serial) /\ Went
    \/ DeleteUserRequests(Serial) /\ Went
    \/ DeleteUserVehicles(Serial) /\ Went
    \/ DeleteUserDelete(Serial) /\ Went
    \/ \E p \in Procs, ok \in {TRUE} : LogAction(p, ok) /\ Went

SpecAdminConc == InitAdmin /\ [][NextAdminConc]_vars

-----------------------------------------------------------------------------
(* Properties.  The compatibility rule and the bookkeeping below are       *)
(* written from the specification's text, independently of the queries     *)
(* above.  In the specifications that run one call at a time, last is the  *)
(* call in flight or just answered, and before holds the tables it found.  *)

\* "any" in any letter case.
AnyInAnyCase == { x \o y \o z : x \in {"a", "A"}, y \in {"n", "N"}, z \in {"y", "Y"} }

\* The specification's compatibility predicate for slot S and vehicle V.
SpecCompatible(S, V) ==
    /\ S.status = "AVAILABLE"
    /\ S.size = V.size
    /\ S.vehicleType = V.vehicleType \/ S.vehicleType \in AnyInAnyCase

\* The APPROVED requests bound to slot s, in the table reqs and now.
ApprovedIn(reqs, s) ==
    { r \in DOMAIN reqs : reqs[r].requestStatus = "APPROVED" /\ reqs[r].slotId = s }

ApprovedOn(s) == ApprovedIn(requests, s)

\* The requests of vehicle v that are PENDING or APPROVED, in the table reqs
\* and now.
ActiveIn(reqs, v) ==
    { r \in DOMAIN reqs : reqs[r].vehicleId = v
                          /\ reqs[r].requestStatus \in {"PENDING", "APPROVED"} }

ActiveOf(v) == ActiveIn(requests, v)

last == procs[Serial]

\* No call is in flight.
Quiet == \A p \in Procs : Free(p)

\* The call last is answered.
Done == last.pc = "done"

\* The step answers a call of handler op (last' is that call, before' the
\* tables it found).
Completes(op) == last'.pc = "done" /\ last'.op = op /\ last' # last

\* The call answered by the step changed no request, slot or vehicle.
Untouched == requests' = before'.requests /\ slots' = before'.slots
             /\ vehicles' = before'.vehicles

(* C1: with approveRequest taken one database call at a time, no state has *)
(* a request APPROVED and bound to a slot that is still AVAILABLE, nor a   *)
(* slot UNAVAILABLE without an APPROVED request bound to it: the two       *)
(* writes take effect together.  (In the service as declared no approve    *)
(* reaches its writes: SpecConc satisfies the statement with no request    *)
(* ever APPROVED and no slot ever UNAVAILABLE.)                            *)
C1_ApproveWritesAtomic ==
    \A s \in SlotIds :
        /\ ApprovedOn(s) # {} => slots[s].status = "UNAVAILABLE"
        /\ slots[s].status = "UNAVAILABLE" => ApprovedOn(s) # {}

(* C2: under any interleaving of approve calls, no slot is referenced by   *)
(* the slotId of more than one APPROVED request.  (In the service as       *)
(* declared no approve succeeds: SpecConc satisfies the statement with no  *)
(* request ever APPROVED.)                                                 *)
C2_NoDoubleAssignment ==
    \A s \in SlotIds : Cardinality(ApprovedOn(s)) <= 1

(* C3: after any sequence of calls run one at a time from a lot of         *)
(* AVAILABLE slots, a slot is UNAVAILABLE if and only if exactly one       *)
(* APPROVED request is bound to it.                                        *)
C3_UnavailableIffOneApproved ==
    Quiet => \A s \in SlotIds :
                slots[s].status = "UNAVAILABLE" <=> Cardinality(ApprovedOn(s)) = 1

\* An approval has taken a slot while another slot is still free and a
\* second request exists.
C3_Witness ==
    /\ Quiet /\ Len(requests) = 2
    /\ \E s, t \in SlotIds :
        /\ slots[s].status = "UNAVAILABLE" /\ Cardinality(ApprovedOn(s)) = 1
        /\ slots[t].status = "AVAILABLE" /\ ApprovedOn(t) = {}

(* C4: after any sequence of calls run one at a time, every vehicle has at *)
(* most one request that is PENDING or APPROVED.                           *)
C4_OneActivePerVehicle ==
    Quiet => \A v \in VehicleIds : Cardinality(ActiveOf(v)) <= 1

\* A create for a vehicle whose request is already approved was refused.
C4_Witness ==
    /\ Done /\ last.op = "create" /\ last.res = "Conflict" /\ last.st = "APPROVED"
    /\ Cardinality(ActiveOf(last.arg)) = 1

(* C5: under any interleaving of create and update calls, every vehicle    *)
(* has at most one request that is PENDING or APPROVED: no two calls that  *)
(* make a request of the same vehicle active both take effect.  (Violated: *)
(* both handlers query for an active request before either writes.)        *)
C5_OneActivePerVehicleInterleaved ==
    \A v \in VehicleIds : Cardinality(ActiveOf(v)) <= 1

(* C6: after any sequence of calls run one at a time, a request has a      *)
(* slotId, and an assignedSlotNumber, if and only if it is APPROVED.       *)
C6_SlotBoundIffApproved ==
    Quiet => \A r \in DOMAIN requests :
        /\ requests[r].slotId # Null <=> requests[r].requestStatus = "APPROVED"
        /\ requests[r].assignedSlotNumber # Null <=> requests[r].requestStatus = "APPROVED"

\* One request is approved and bound, another has ended without a slot.
C6_Witness ==
    /\ Quiet
    /\ \E r, q \in DOMAIN requests :
        /\ requests[r].requestStatus = "APPROVED"
        /\ requests[r].slotId \in SlotIds
        /\ requests[r].assignedSlotNumber = slots[requests[r].slotId].slotNumber
        /\ requests[q].requestStatus \in {"CANCELLED", "REJECTED"}
        /\ requests[q].slotId = Null

(* C7: once a request has left PENDING its requestStatus never changes     *)
(* again, whatever update, cancel, approve and reject calls are made on    *)
(* it, their database calls interleaved: each of them is refused and       *)
(* leaves the request as it is.  (Violated: a cancel and a reject that     *)
(* both read the request while it is PENDING both write, and the later     *)
(* write changes the status the earlier one gave.)                         *)
C7_StatusFinal ==
    [][\A r \in DOMAIN requests :
            requests[r].requestStatus # "PENDING"
                => requests'[r].requestStatus = requests[r].requestStatus]_vars

(* C8: of two approve calls made in succession on a request that was       *)
(* PENDING, with any slot arguments, exactly one succeeds and the later    *)
(* one fails with InvalidState.  (Violated: the slot query of the first    *)
(* call throws, the request stays PENDING and the second call throws at    *)
(* the same query; neither succeeds.)                                      *)
C8_ExactlyOneApproveSucceeds ==
    (Done /\ last.op = "approve" /\ last.prev \in {"OK", "NoCompatibleSlot", "ServerError"})
    => (last.prev = "OK" /\ last.res = "InvalidState")

\* The step answers an approve of the existing request r, which was
\* PENDING when the call was made.
C9_ApprovesPending(r) ==
    /\ Completes("approve")
    /\ r = last'.rid
    /\ r \in DOMAIN before'.requests
    /\ before'.requests[r].requestStatus = "PENDING"

\* The vehicle of request r as the call found it.
C9_Vehicle(r) == before'.vehicles[before'.requests[r].vehicleId]

\* No slot satisfies the compatibility predicate for the approve call with
\* slot argument m on a request of vehicle V.
C9_NoneCompatible(m, V) ==
    IF m = Absent
    THEN \A s \in SlotIds : ~SpecCompatible(before'.slots[s], V)
    ELSE m \notin SlotIds \/ ~SpecCompatible(before'.slots[m], V)

C9_Rule ==
    \A r \in RequestIds :
        (/\ C9_ApprovesPending(r)
         /\ last'.arg # NonString
         /\ C9_NoneCompatible(last'.arg, C9_Vehicle(r)))
        => /\ last'.res = "NoCompatibleSlot" /\ last'.code = 400
           /\ Untouched
           /\ requests'[r].requestStatus = "PENDING"
           /\ requests'[r].slotId = Null
           /\ requests'[r].approvedAt = 0

(* C9: an approve of a PENDING request for which no slot satisfies the     *)
(* compatibility predicate (none at all for automatic selection; the       *)
(* manual slot missing, not AVAILABLE or incompatible) fails with          *)
(* NoCompatibleSlot; the request stays PENDING without slot and without    *)
(* approvedAt, and no slot changes.  (Violated on the mysql connector: the *)
(* slot query is rejected and the call ends in a server error.)            *)
C9_NoCompatibleSlotLeavesPending == [][C9_Rule]_vars

\* C9 where the client accepts the insensitive filter.
C9_WhereModeAccepted == [][ModeAccepted(connector) => C9_Rule]_vars

(* C10: every successful approve binds a slot that, in the state the call  *)
(* found, was AVAILABLE, of the vehicle's size, and of the vehicle's type  *)
(* or of type "any" in any letter case; the call changes nothing but the   *)
(* request (status, slot binding, approvedAt) and that slot's status.      *)
C10_BoundSlotWasCompatible ==
    [][(Completes("approve") /\ last'.res = "OK") =>
        LET r == last'.rid
            s == requests'[r].slotId
            old == before'.requests
        IN  /\ r \in DOMAIN old /\ s \in SlotIds
            /\ SpecCompatible(before'.slots[s], before'.vehicles[old[r].vehicleId])
            /\ last'.arg # Absent => s = last'.arg
            /\ requests'[r] = [old[r] EXCEPT
                                  !.requestStatus = "APPROVED", !.slotId = s,
                                  !.assignedSlotNumber = before'.slots[s].slotNumber,
                                  !.approvedAt = requests'[r].approvedAt]
            /\ \A q \in DOMAIN old : q # r => requests'[q] = old[q]
            /\ DOMAIN requests' = DOMAIN old
            /\ slots' = [before'.slots EXCEPT ![s] = [@ EXCEPT !.status = "UNAVAILABLE"]]
            /\ vehicles' = before'.vehicles]_vars

\* A truck was approved into a slot of type "ANY", matched only through the
\* wildcard.
C10_Witness ==
    /\ Done /\ last.op = "approve" /\ last.res = "OK"
    /\ LET r == requests[last.rid]
       IN  /\ r.slotId \in SlotIds
           /\ vehicles[r.vehicleId].vehicleType = "truck"
           /\ slots[r.slotId].vehicleType = "ANY"
           /\ slots[r.slotId].size = vehicles[r.vehicleId].size

C11_Rule ==
    \A r \in RequestIds :
        (/\ C9_ApprovesPending(r)
         /\ last'.arg = Absent
         /\ \E t \in SlotIds : SpecCompatible(before'.slots[t], C9_Vehicle(r)))
        => LET V == C9_Vehicle(r)
               s == requests'[r].slotId
               old == before'.slots
           IN  /\ last'.res = "OK"
               /\ s \in SlotIds
               /\ SpecCompatible(old[s], V)
               /\ \A t \in SlotIds :
                    SpecCompatible(old[t], V) => old[s].createdAt <= old[t].createdAt

(* C11: an approve without a manual slot, when some slot satisfies the     *)
(* compatibility predicate for the request's vehicle, succeeds and binds a *)
(* compatible slot such that no compatible slot was created strictly       *)
(* earlier.  (Violated on the mysql connector: the slot query is rejected  *)
(* and no slot is bound.)                                                  *)
C11_AutomaticPicksOldest == [][C11_Rule]_vars

\* C11 where the client accepts the insensitive filter.
C11_WhereModeAccepted == [][ModeAccepted(connector) => C11_Rule]_vars

C12_Rule ==
    \A r \in RequestIds :
        (C9_ApprovesPending(r) /\ last'.arg \in SlotIds \cup {GhostSlot})
        => LET V == C9_Vehicle(r)
               m == last'.arg
           IN  IF m \in SlotIds /\ SpecCompatible(before'.slots[m], V)
               THEN /\ last'.res = "OK"
                    /\ requests'[r].slotId = m
                    /\ slots'[m].status = "UNAVAILABLE"
               ELSE /\ last'.res = "NoCompatibleSlot" /\ last'.code = 400
                    /\ Untouched

(* C12: an approve of a PENDING request that names a manual slot binds     *)
(* that slot when it satisfies the compatibility predicate, and otherwise  *)
(* fails with NoCompatibleSlot and changes nothing, whatever other slots   *)
(* are compatible and AVAILABLE.  (Violated on the mysql connector: the    *)
(* slot query is rejected and the call ends in a server error.)            *)
C12_ManualSlotOnly == [][C12_Rule]_vars

\* C12 where the client accepts the insensitive filter.
C12_WhereModeAccepted == [][ModeAccepted(connector) => C12_Rule]_vars

(* C13: a create for an existing vehicle fails with Forbidden when the     *)
(* caller does not own the vehicle, and else with Conflict quoting the     *)
(* status (PENDING or APPROVED) of an active request of the vehicle when   *)
(* there is one; neither changes a request or a slot.  Otherwise it adds   *)
(* exactly one request: PENDING, without slot, owned by the caller.        *)
C13_CreateOutcome ==
    [][(Completes("create") /\ last'.arg \in VehicleIds)
       => LET v == last'.arg
              u == last'.caller
              old == before'.requests
          IN  IF before'.vehicles[v].userId # u
              THEN /\ last'.res = "Forbidden" /\ last'.code = 403
                   /\ Untouched
              ELSE IF ActiveIn(old, v) # {}
              THEN /\ last'.res = "Conflict" /\ last'.code = 400
                   /\ last'.st \in {"PENDING", "APPROVED"}
                   /\ \E e \in ActiveIn(old, v) : last'.st = old[e].requestStatus
                   /\ Untouched
              ELSE /\ last'.res = "OK" /\ last'.code = 201
                   /\ requests' = Append(old,
                          [userId |-> u, vehicleId |-> v, requestStatus |-> "PENDING",
                           slotId |-> Null, assignedSlotNumber |-> Null,
                           approvedAt |-> 0])
                   /\ slots' = before'.slots /\ vehicles' = before'.vehicles]_vars

\* A user asked for a slot for a vehicle of another user, which has an
\* active request, and was refused as not the owner.
C13_Witness ==
    /\ Done /\ last.op = "create" /\ last.res = "Forbidden"
    /\ last.arg \in VehicleIds
    /\ ActiveOf(last.arg) # {}
    /\ Len(requests) = 1

\* The conditions under which the update of request r to vehicle v by user
\* u is allowed, in the tables t.
C14_Allowed(t, u, r, v) ==
    /\ r \in DOMAIN t.requests
    /\ t.requests[r].userId = u
    /\ t.requests[r].requestStatus = "PENDING"
    /\ v \in VehicleIds
    /\ t.vehicles[v].userId = u
    /\ v # t.requests[r].vehicleId => ActiveIn(t.requests, v) \ {r} = {}

(* C14: an update succeeds exactly when the caller owns the request, the   *)
(* request is PENDING, the new vehicle is the caller's and, if it differs  *)
(* from the current one, no other PENDING or APPROVED request references   *)
(* it; a successful update replaces the request's vehicle reference and    *)
(* changes nothing else (status PENDING, no slot, other requests, slots).  *)
C14_UpdateSwapsVehicleOnly ==
    [][Completes("update")
       => LET u == last'.caller
              r == last'.rid
              v == last'.arg
          IN  IF C14_Allowed(before', u, r, v)
              THEN /\ last'.res = "OK" /\ last'.code = 200
                   /\ requests' = [before'.requests EXCEPT ![r] = [@ EXCEPT !.vehicleId = v]]
                   /\ requests'[r].requestStatus = "PENDING"
                   /\ requests'[r].slotId = Null
                   /\ slots' = before'.slots /\ vehicles' = before'.vehicles
              ELSE /\ last'.res # "OK"
                   /\ Untouched]_vars

\* An update to the vehicle the request names succeeded while the caller's
\* other request is active.
C14_Witness ==
    /\ Done /\ last.op = "update" /\ last.res = "OK"
    /\ Len(requests) = 2
    /\ requests[last.rid].vehicleId = last.arg
    /\ before.requests[last.rid].vehicleId = last.arg
    /\ requests[last.rid].requestStatus = "PENDING"
    /\ \E q \in DOMAIN requests :
        /\ q # last.rid
        /\ requests[q].requestStatus \in {"PENDING", "APPROVED"}
        /\ requests[q].userId = requests[last.rid].userId

(* C15: a cancel of an existing request succeeds exactly when the caller   *)
(* owns it and it is PENDING, and then sets its status to CANCELLED and    *)
(* changes nothing else; a cancel by another user fails with Forbidden and *)
(* changes nothing.                                                        *)
C15_CancelOutcome ==
    [][(Completes("cancel") /\ last'.rid \in DOMAIN before'.requests)
       => LET r == last'.rid
              old == before'.requests
          IN  IF old[r].userId # last'.caller
              THEN /\ last'.res = "Forbidden" /\ last'.code = 403
                   /\ Untouched
              ELSE IF old[r].requestStatus = "PENDING"
              THEN /\ last'.res = "OK"
                   /\ requests' = [old EXCEPT ![r] = [@ EXCEPT !.requestStatus = "CANCELLED"]]
                   /\ slots' = before'.slots /\ vehicles' = before'.vehicles
              ELSE /\ last'.res # "OK"
                   /\ Untouched]_vars

\* A user other than the owner tried to cancel a PENDING request.
C15_Witness ==
    /\ Done /\ last.op = "cancel" /\ last.res = "Forbidden"
    /\ requests[last.rid].requestStatus = "PENDING"
    /\ requests[last.rid].userId # last.caller

(* C16: a reject of a PENDING request, with or without a reason, succeeds, *)
(* sets the request's status to REJECTED and changes nothing else: not the *)
(* request's vehicle or slot binding, no other request, no slot.           *)
C16_RejectChangesStatusOnly ==
    [][\A r \in RequestIds :
        (/\ Completes("reject")
         /\ r = last'.rid
         /\ r \in DOMAIN before'.requests
         /\ before'.requests[r].requestStatus = "PENDING")
        => /\ last'.res = "OK" /\ last'.code = 200
           /\ requests' = [before'.requests EXCEPT
                              ![r] = [@ EXCEPT !.requestStatus = "REJECTED"]]
           /\ requests'[r].slotId = Null
           /\ slots' = before'.slots /\ vehicles' = before'.vehicles]_vars

\* A request was rejected with a reason while a slot is taken by the other
\* request.
C16_Witness ==
    /\ Done /\ last.op = "reject" /\ last.res = "OK" /\ last.arg = "lot closed"
    /\ requests[last.rid].requestStatus = "REJECTED"
    /\ \E s \in SlotIds : slots[s].status = "UNAVAILABLE"

\* The handler has done its writes and is at its audit write or its mail.
C17_AtSideEffects == last.pc \in {"log", "mail"}

\* The tables hold what the successful call c wrote.
C17_Written(c) ==
    /\ c.rid \in DOMAIN requests
    /\ LET req == requests[c.rid]
       IN  CASE c.op = "create"  -> /\ req.requestStatus = "PENDING"
                                    /\ req.userId = c.caller /\ req.vehicleId = c.arg
             [] c.op = "update"  -> req.requestStatus = "PENDING" /\ req.vehicleId = c.arg
             [] c.op = "cancel"  -> req.requestStatus = "CANCELLED"
             [] c.op = "approve" -> /\ req.requestStatus = "APPROVED"
                                    /\ req.slotId \in SlotIds
                                    /\ slots[req.slotId].status = "UNAVAILABLE"
             [] c.op = "reject"  -> req.requestStatus = "REJECTED"
             [] OTHER            -> FALSE

(* C17: once a create, update, cancel, approve or reject has done its      *)
(* writes, the response it decided is a success and is the one sent, and   *)
(* the requests, slots and vehicles stay as written, whether the audit     *)
(* write and the mail succeed or fail: no failure of either turns the      *)
(* response into an error or touches the tables.                           *)
C17_SideEffectFailuresAbsorbed ==
    /\ [](C17_AtSideEffects \/ (Done /\ last.res = "OK")
            => last.res = "OK" /\ last.code \in {200, 201} /\ C17_Written(last))
    /\ [][C17_AtSideEffects
            => /\ UNCHANGED <<requests, slots, vehicles>>
               /\ last'.op = last.op /\ last'.rid = last.rid
               /\ last'.res = last.res /\ last'.code = last.code
               /\ last'.pc \in {"mail", "done"}]_vars

\* An approval was answered with success although both the audit write and
\* the mail failed.
C17_Witness ==
    /\ Done /\ last.op = "approve" /\ last.res = "OK" /\ last.code = 200
    /\ ~last.auditOk /\ ~last.mailOk
    /\ C17_Written(last)
    /\ \A i \in DOMAIN actionLog : actionLog[i].action # "SLOT_REQUEST_APPROVED"

(* C18: once approve or reject has written the request (and slot), the     *)
(* response is eventually sent even if the audit write or the mail never   *)
(* completes.  (Violated: the handler awaits logAction and sendEmail       *)
(* before it sends the response.)                                          *)
C18_ResponseDoesNotWait ==
    (last.pc = "log" /\ last.op \in {"approve", "reject"}) ~> Done

\* The action name each handler hands to logAction.
C19_AuditName(op) ==
    CASE op = "create"  -> "SLOT_REQUEST_CREATED"
      [] op = "approve" -> "SLOT_REQUEST_APPROVED"
      [] op = "reject"  -> "SLOT_REQUEST_REJECTED"
      [] op = "update"  -> "SLOT_REQUEST_UPDATED_BY_USER"
      [] op = "cancel"  -> "SLOT_REQUEST_CANCELLED_BY_USER"
      [] OTHER          -> "none"

C19_Refusals == {"NotFound", "Forbidden", "InvalidState", "Conflict", "NoCompatibleSlot"}

(* C19: a create, approve or reject that succeeded has issued exactly one  *)
(* audit write when it answers, with its own action name and after its     *)
(* writes to the tables; an approve or reject has then made exactly one    *)
(* attempt to send mail, also when that attempt failed; a call refused     *)
(* with NotFound, Forbidden, InvalidState, Conflict or NoCompatibleSlot    *)
(* issues no audit write and no mail.                                      *)
C19_OneAuditOneMail ==
    /\ [](Done /\ last.res = "OK"
            => /\ last.audits = 1
               /\ last.mails = IF last.op \in {"approve", "reject"} THEN 1 ELSE 0)
    /\ [](last.audits <= 1 /\ last.mails <= 1)
    /\ [](Done /\ last.res \in C19_Refusals => last.audits = 0 /\ last.mails = 0)
    /\ [][last'.audits # last.audits \/ last'.mails # last.mails
            => \/ last'.audits = 0 /\ last'.mails = 0 /\ Free(Serial)
               \/ /\ C17_AtSideEffects /\ last.res = "OK" /\ C17_Written(last)
                  /\ UNCHANGED <<requests, slots, vehicles>>
                  /\ last'.mails # last.mails
                        => last.audits = 1 /\ last.op \in {"approve", "reject"}]_vars
    /\ [][actionLog' # actionLog
            => /\ last.pc = "log" /\ last'.audits = 1
               /\ actionLog' = Append(actionLog,
                      [action |-> C19_AuditName(last.op), userId |-> last.caller])]_vars

\* A rejection was answered after one audit row and one failed attempt to
\* send mail.
C19_Witness ==
    /\ Done /\ last.op = "reject" /\ last.res = "OK"
    /\ last.audits = 1 /\ last.mails = 1 /\ ~last.mailOk
    /\ Len(actionLog) > 0
    /\ actionLog[Len(actionLog)] = [action |-> "SLOT_REQUEST_REJECTED", userId |-> Admin]

(* C20: with updateSlot, deleteSlot and deleteUser next to the lifecycle   *)
(* operations, after any sequence of calls no slot is UNAVAILABLE without  *)
(* an APPROVED request bound to it, and no slot is AVAILABLE while an      *)
(* APPROVED request is bound to it.  (Violated: updateSlot stores whatever *)
(* status it is sent, UNAVAILABLE on a slot no request is bound to.)       *)
C20_AdminKeepsSlotStatus ==
    Quiet => \A s \in SlotIds :
        HasSlot(slots, s) =>
            /\ slots[s].status = "UNAVAILABLE" => Cardinality(ApprovedOn(s)) = 1
            /\ slots[s].status = "AVAILABLE" => ApprovedOn(s) = {}

(* C21: every APPROVED request carries the approval it was given: its      *)
(* assignedSlotNumber is the slotNumber of the slot its slotId references  *)
(* and its approvedAt is set, in every reachable state, the                *)
(* administrator's slot edits included.  (In the service as declared no    *)
(* request is ever APPROVED: SpecAdmin satisfies the statement and         *)
(* C21_WrittenOnce with no request they speak of.)                         *)
C21_ApprovalRecordKept ==
    \A r \in DOMAIN requests :
        requests[r].requestStatus = "APPROVED"
            => /\ HasSlot(slots, requests[r].slotId)
               /\ requests[r].assignedSlotNumber = slots[requests[r].slotId].slotNumber
               /\ requests[r].approvedAt # 0

\* assignedSlotNumber and approvedAt of an APPROVED request are not changed
\* by any later operation.
C21_WrittenOnce ==
    [][\A r \in DOMAIN requests :
            requests[r].requestStatus = "APPROVED" /\ HasRequest(requests', r)
                => /\ requests'[r].assignedSlotNumber = requests[r].assignedSlotNumber
                   /\ requests'[r].approvedAt = requests[r].approvedAt]_vars

\* The rows of log whose actor is not a, in order.
C22_RowsNotOf(log, a) ==
    LET NotBy(row) == row.userId # a
    IN  SelectSeq(log, NotBy)

(* C22: every step leaves ActionLog as it is, adds one row at its end, or  *)
(* is deleteUser removing the rows whose actor is the user it deletes and  *)
(* keeping the rows of every other actor as they were and in order; no row *)
(* is ever changed, and once a user is deleted no row of theirs is left.   *)
(* (Violated: a handler called by the user logs its row between            *)
(* deleteUser's actionLog.deleteMany and its user.delete; the foreign key  *)
(* of ActionLog.userId then sets the row's actor to null.)                 *)
C22_LogAppendOnly ==
    [][\/ actionLog' = actionLog
       \/ /\ Len(actionLog') = Len(actionLog) + 1
          /\ SubSeq(actionLog', 1, Len(actionLog)) = actionLog
       \/ /\ last.op = "deleteUser" /\ last.pc # "done"
          /\ actionLog' = C22_RowsNotOf(actionLog, last.arg)]_vars

\* The activations that answered success to a cancel, approve or reject of
\* request r.
C23_Succeeded(r) ==
    { p \in Procs : /\ procs[p].pc = "done" /\ procs[p].res = "OK" /\ procs[p].rid = r
                     /\ procs[p].op \in {"cancel", "approve", "reject"} }

(* C23: with cancel, approve and reject taken one database call at a time  *)
(* on the same request, no two of them of different kinds both answer      *)
(* success, and a request that is CANCELLED or REJECTED holds no slot: its *)
(* slotId is null.  (Violated: each handler checks PENDING in one call and *)
(* writes in a later one, so a cancel and a reject that both read PENDING  *)
(* both succeed.)                                                          *)
C23_OneOutcome ==
    \A r \in DOMAIN requests :
        /\ \A p, q \in C23_Succeeded(r) : procs[p].op = procs[q].op
        /\ requests[r].requestStatus \in {"CANCELLED", "REJECTED"}
                => requests[r].slotId = Null

(* C24: with approveRequest and the owner's updateSlotRequest taken one    *)
(* database call at a time on the same request, an APPROVED request is     *)
(* bound to a slot of the size and the type (or of type "any") of the      *)
(* vehicle the request names: the slot was matched against that vehicle.   *)
(* (In the service as declared no approve succeeds: SpecConc satisfies the *)
(* statement with no request ever APPROVED.)                               *)
C24_ApprovedVehicleMatched ==
    \A r \in DOMAIN requests :
        requests[r].requestStatus = "APPROVED" /\ HasSlot(slots, requests[r].slotId)
            => LET S == slots[requests[r].slotId]
                   V == vehicles[requests[r].vehicleId]
               IN  /\ S.size = V.size
                   /\ S.vehicleType = V.vehicleType \/ S.vehicleType \in AnyInAnyCase

(* C25: a slot referenced by the slotId of an APPROVED request is never    *)
(* deleted: a deleteSlot on it fails and changes neither the slots nor the *)
(* requests, so no step leaves an APPROVED request with its slotId made    *)
(* null by the foreign key.  (In the service as declared no request is     *)
(* ever APPROVED: SpecAdmin satisfies the statement with no slot it speaks *)
(* of.)                                                                    *)
C25_BoundSlotNotDeleted ==
    [][/\ \A r \in DOMAIN requests :
              requests[r].requestStatus = "APPROVED" /\ HasRequest(requests', r)
                  => /\ requests'[r].slotId = requests[r].slotId
                     /\ HasSlot(slots, requests[r].slotId)
                            => HasSlot(slots', requests[r].slotId)
       /\ Completes("deleteSlot") /\ ApprovedIn(before'.requests, last'.arg) # {}
              => last'.res # "OK" /\ Untouched]_vars

\* deleteVehicle is called by the owner of an existing vehicle.
C26_OwnerDeletes(v) ==
    /\ Completes("deleteVehicle") /\ last'.arg = v
    /\ HasVehicle(before'.vehicles, v) /\ before'.vehicles[v].userId = last'.caller

(* C26: deleteVehicle called by the vehicle's owner succeeds and removes   *)
(* the vehicle exactly when no PENDING or APPROVED request references it,  *)
(* whatever CANCELLED or REJECTED requests it has; otherwise it fails and  *)
(* changes neither the vehicles nor the requests; and every request        *)
(* references an existing vehicle.  (Violated: the vehicle of a CANCELLED  *)
(* or REJECTED request cannot be deleted, the foreign key of               *)
(* SlotRequest.vehicleId refuses and the call ends in a server error.)     *)
C26_DeleteVehicleOutcome ==
    [][/\ \A v \in DOMAIN vehicles :
              C26_OwnerDeletes(v)
                  => IF ActiveIn(before'.requests, v) = {}
                     THEN /\ last'.res = "OK"
                          /\ ~HasVehicle(vehicles', v)
                          /\ \A w \in DOMAIN vehicles \ {v} :
                                vehicles'[w] = before'.vehicles[w]
                     ELSE /\ last'.res # "OK"
                          /\ Untouched
       /\ \A r \in DOMAIN requests' :
              HasRequest(requests', r) => HasVehicle(vehicles', requests'[r].vehicleId)]_vars

\* Every request references an existing vehicle.
C26_RequestsHaveVehicles ==
    \A r \in DOMAIN requests :
        HasRequest(requests, r) => HasVehicle(vehicles, requests[r].vehicleId)

====
